---- MODULE Spec2Model ----
(***************************************************************************)
(* State-machine model of the Casper Ignite contracts: the bonding-curve   *)
(* AMM (contracts/amm), the token vault (contracts/contract), the order    *)
(* book (contracts/orderbook) and the launchpad (contracts/launchpad).     *)
(*                                                                         *)
(* Every entry point is one action.  An entry point is translated as an    *)
(* operator that runs the statements of the handler in source order over   *)
(* a copy of the contract's store and of the purse ledger and returns the  *)
(* store and ledger at the point where the handler stopped together with   *)
(* the error it stopped with; Commit then applies the host's rule that a   *)
(* reverted call commits nothing.                                          *)
(***************************************************************************)
EXTENDS Integers, Sequences, FiniteSets, TLC

(***************************************************************************)
(* U512 / u64 values.  TLC's integers are 32 bits wide and the contracts   *)
(* compute with motes (10^9 per CSPR) and milliseconds, so a value is a    *)
(* little-endian sequence of base-10^4 limbs without leading zero limbs;   *)
(* zero is the empty sequence.                                             *)
(***************************************************************************)
Base == 10 * 1000

\* Operators below bind their arguments and intermediate results to values
\* (x \in {e}) before using them more than once.
RECURSIVE BigNorm(_)
BigNorm(x) ==
    IF x = <<>> THEN <<>>
    ELSE IF x[Len(x)] = 0 THEN BigNorm(SubSeq(x, 1, Len(x) - 1))
    ELSE x

RECURSIVE BigFromNat(_)
BigFromNat(n) ==
    IF n = 0 THEN <<>> ELSE <<n % Base>> \o BigFromNat(n \div Base)

BigZero == <<>>

BigIsZero(x) == x = <<>>

\* comparison, most significant limb first, of two values of equal length
RECURSIVE BigCmpFrom(_, _, _)
BigCmpFrom(a, b, i) ==
    IF i = 0 THEN 0
    ELSE IF a[i] < b[i] THEN -1
    ELSE IF a[i] > b[i] THEN 1
    ELSE BigCmpFrom(a, b, i - 1)

BigCmp(a, b) ==
    CHOOSE c \in {IF Len(x) < Len(y) THEN -1
                  ELSE IF Len(x) > Len(y) THEN 1
                  ELSE BigCmpFrom(x, y, Len(x)) : x \in {a}, y \in {b}} : TRUE

BigLt(a, b) == BigCmp(a, b) < 0
BigLe(a, b) == BigCmp(a, b) <= 0
BigGt(a, b) == BigCmp(a, b) > 0
BigGe(a, b) == BigCmp(a, b) >= 0

Limb(x, i) == IF i <= Len(x) THEN x[i] ELSE 0

RECURSIVE BigAddFrom(_, _, _, _)
BigAddFrom(a, b, i, carry) ==
    IF i > Len(a) /\ i > Len(b)
    THEN (IF carry = 0 THEN <<>> ELSE <<carry>>)
    ELSE CHOOSE r \in {<<s % Base>> \o BigAddFrom(a, b, i + 1, s \div Base) :
                          s \in {Limb(a, i) + Limb(b, i) + carry}} : TRUE

BigAdd(a, b) == CHOOSE r \in {BigAddFrom(x, y, 1, 0) : x \in {a}, y \in {b}} : TRUE

\* a - b for a >= b
RECURSIVE BigSubFrom(_, _, _, _)
BigSubFrom(a, b, i, borrow) ==
    IF i > Len(a) THEN <<>>
    ELSE CHOOSE r \in {IF d < 0
                       THEN <<d + Base>> \o BigSubFrom(a, b, i + 1, 1)
                       ELSE <<d>> \o BigSubFrom(a, b, i + 1, 0) :
                          d \in {Limb(a, i) - Limb(b, i) - borrow}} : TRUE

BigSub(a, b) == CHOOSE r \in {BigNorm(BigSubFrom(x, y, 1, 0)) : x \in {a}, y \in {b}} : TRUE

\* a * m for one limb 0 <= m < Base
RECURSIVE BigMulLimbFrom(_, _, _, _)
BigMulLimbFrom(a, m, i, carry) ==
    IF i > Len(a)
    THEN (IF carry = 0 THEN <<>> ELSE <<carry>>)
    ELSE CHOOSE r \in {<<p % Base>> \o BigMulLimbFrom(a, m, i + 1, p \div Base) :
                          p \in {a[i] * m + carry}} : TRUE

BigMulLimb(a, m) ==
    CHOOSE r \in {BigNorm(BigMulLimbFrom(x, k, 1, 0)) : x \in {a}, k \in {m}} : TRUE

BigShiftLimb(x) == CHOOSE r \in {IF v = <<>> THEN <<>> ELSE <<0>> \o v : v \in {x}} : TRUE

RECURSIVE BigMulFrom(_, _, _)
BigMulFrom(a, b, i) ==
    IF i > Len(b) THEN <<>>
    ELSE BigAdd(BigMulLimb(a, b[i]), BigShiftLimb(BigMulFrom(a, b, i + 1)))

\* a * b, adding up one multiple of the longer operand per limb of the shorter
BigMul(a, b) ==
    CHOOSE r \in {IF Len(x) < Len(y) THEN BigMulFrom(y, x, 1) ELSE BigMulFrom(x, y, 1) :
                     x \in {a}, y \in {b}} : TRUE

\* the largest q in lo .. hi-1 with b * q <= r, given b * lo <= r
RECURSIVE BigQuotLimb(_, _, _, _)
BigQuotLimb(r, b, lo, hi) ==
    IF hi - lo <= 1 THEN lo
    ELSE CHOOSE q \in {IF BigLe(BigMulLimb(b, mid), r)
                       THEN BigQuotLimb(r, b, mid, hi)
                       ELSE BigQuotLimb(r, b, lo, mid) :
                          mid \in {(lo + hi) \div 2}} : TRUE

\* long division of the limbs a[1..i] with running remainder r < b by b, a
\* divisor of two or more limbs; the quotient limb lies between the quotients
\* of the leading limbs of the remainder by the leading limb of b plus one
\* and by the leading limb of b
RECURSIVE BigDivFrom(_, _, _, _)
BigDivFrom(a, b, i, r) ==
    IF i = 0 THEN <<>>
    ELSE CHOOSE res \in
           {IF BigLt(r1, b)
            THEN BigDivFrom(a, b, i - 1, r1) \o <<0>>
            ELSE CHOOSE res2 \in
                   {CHOOSE res3 \in {BigDivFrom(a, b, i - 1, r2) \o <<q>> :
                                        r2 \in {BigSub(r1, BigMulLimb(b, q))}} : TRUE :
                       q \in {CHOOSE q0 \in
                                {BigQuotLimb(r1, b, rt \div (b[Len(b)] + 1),
                                             IF rt \div b[Len(b)] + 1 < Base
                                             THEN rt \div b[Len(b)] + 1 ELSE Base) :
                                    rt \in {Limb(r1, Len(b)) + Base * Limb(r1, Len(b) + 1)}} :
                                TRUE}} : TRUE :
               r1 \in {BigNorm(<<a[i]>> \o r)}} : TRUE

\* division of the limbs a[1..i] with running remainder r < d by one limb d
RECURSIVE BigDivLimbFrom(_, _, _, _)
BigDivLimbFrom(a, d, i, r) ==
    IF i = 0 THEN <<>>
    ELSE CHOOSE res \in {BigDivLimbFrom(a, d, i - 1, t % d) \o <<t \div d>> :
                            t \in {r * Base + a[i]}} : TRUE

\* number of zero limbs at the low end of x # 0
RECURSIVE BigLowZeros(_, _)
BigLowZeros(x, i) == IF x[i] # 0 THEN i - 1 ELSE BigLowZeros(x, i + 1)

\* floor(a / b) for b # 0: floor(a / (c * Base^z)) = floor(floor(a / Base^z) / c)
BigDiv(a, b) ==
    CHOOSE r \in
      {IF BigLt(x, y) THEN <<>>
       ELSE CHOOSE r2 \in
              {IF Len(y) - z = 1
               THEN BigNorm(BigDivLimbFrom(SubSeq(x, z + 1, Len(x)), y[Len(y)],
                                           Len(x) - z, 0))
               ELSE BigNorm(BigDivFrom(SubSeq(x, z + 1, Len(x)),
                                       SubSeq(y, z + 1, Len(y)), Len(x) - z, <<>>)) :
                  z \in {BigLowZeros(y, 1)}} : TRUE :
          x \in {a}, y \in {b}} : TRUE

\* the value of a small Big as a TLC integer (for values below 2^31 only)
RECURSIVE BigToNat(_)
BigToNat(x) == IF x = <<>> THEN 0 ELSE Head(x) + Base * BigToNat(Tail(x))


\* m^n for one limb m
RECURSIVE BigPowLimb(_, _)
BigPowLimb(m, n) == IF n = 0 THEN <<1>> ELSE BigMulLimb(BigPowLimb(m, n - 1), m)

\* the largest U512: 2^512 - 1, with 2^512 = (2^13)^39 * 2^5
U512_MAX == BigSub(BigMulLimb(BigPowLimb(8192, 39), 32), <<1>>)

\* the product of two U512 panics when it does not fit 512 bits.  With
\* Base^38 < 2^512 < Base^39, a product of values of La and Lb limbs fits
\* when La + Lb <= 38 and does not when La + Lb >= 41; in between it is
\* computed and compared.
MulOverflows(a, b) ==
    IF Len(a) + Len(b) <= 38 THEN FALSE
    ELSE IF Len(a) + Len(b) >= 41 THEN TRUE
    ELSE BigGt(IF Len(a) < Len(b) THEN BigMul(b, a) ELSE BigMul(a, b), U512_MAX)

\* the sum of two U512 panics when it does not fit 512 bits; two values of
\* fewer than 39 limbs are below Base^38 each
AddOverflows(a, b) ==
    IF Len(a) < 39 /\ Len(b) < 39 THEN FALSE
    ELSE BigGt(BigAdd(a, b), U512_MAX)

(***************************************************************************)
(* Identities.  An AccountHash is 32 bytes; to_string() renders it as 64   *)
(* lower-case hex digits (a digit is modelled by its value 0..15).         *)
(***************************************************************************)
\* 32 bytes, two hex digits each
HashDigits == 2 * 32

Default == "default"
Admin   == "admin"
Alice   == "alice"
Bob     == "bob"
Mallory == "mallory"

Accounts == {Default, Admin, Alice, Bob, Mallory}

\* AccountHash: the bytes of each identity of the model.  Default is
\* AccountHash::default() (all zero); Mallory differs from Alice in every
\* one of the first 13 hex digits and in none of the last 51.
AccountHash(a) ==
    CASE a = Default -> [i \in 1..HashDigits |-> 0]
      [] a = Admin   -> [i \in 1..HashDigits |-> IF i % 2 = 0 THEN 10 ELSE 13]
      [] a = Alice   -> [i \in 1..HashDigits |-> IF i <= 13 THEN 10 ELSE (i * 7) % 16]
      [] a = Bob     -> [i \in 1..HashDigits |-> IF i <= 13 THEN 11 ELSE (i * 5 + 3) % 16]
      [] a = Mallory -> [i \in 1..HashDigits |-> IF i <= 13 THEN 12 ELSE (i * 7) % 16]

\* AccountHash as Display: the hex digits, no prefix
to_string(a) == AccountHash(a)

(***************************************************************************)
(* The ledger: one main purse per account and one purse per contract.      *)
(***************************************************************************)
AmmReserve  == "cspr_reserve"
VaultPurse  == "cspr_purse"
BookEscrow  == "cspr_escrow"
FeePurse    == "fee_purse"

Purses == Accounts \cup {AmmReserve, VaultPurse, BookEscrow, FeePurse}

\* transfer_from_purse_to_purse / transfer_from_purse_to_account: moves
\* amount, or fails and moves nothing when the source holds less than amount
\* or when the ledger refuses the transfer (ledger_ok = FALSE)
transfer(p, src, dst, amount, ledger_ok) ==
    IF ledger_ok /\ BigGe(p[src], amount)
    THEN [ok |-> TRUE,
          purses |-> IF src = dst THEN p
                     ELSE [p EXCEPT ![src] = BigSub(p[src], amount),
                                    ![dst] = BigAdd(p[dst], amount)]]
    ELSE [ok |-> FALSE, purses |-> p]

(***************************************************************************)
(* Outcome of running a handler: the store and the ledger as the handler   *)
(* left them when it returned or reverted, the error (Ok on success) and   *)
(* the value passed to runtime::ret.                                       *)
(***************************************************************************)
Ok == "Ok"
NoValue == "none"

Outcome(store, p, err, ret) == [store |-> store, purses |-> p, err |-> err, ret |-> ret]

\* runtime::revert / unwrap_or_revert_with: the host discards every write and
\* every transfer of a call that reverts and commits those of a call that
\* returns
CommitKeepsWrites(old, new, err) == new

Commit(old, new, err) == IF err = Ok THEN new ELSE old


(***************************************************************************)
(* State.                                                                  *)
(***************************************************************************)
VARIABLES
    contract,   \* the deployed contract a behaviour exercises
    amm,        \* named keys and dictionary of the AMM
    vault,      \* named keys and dictionaries of the token vault
    book,       \* named keys and dictionaries of the order book
    pad,        \* named keys and dictionaries of the launchpad
    purses,     \* balance of every purse of the ledger
    now,        \* block time, in ms
    last,       \* the last call that succeeded: entry point, caller, arguments, return value
    audit,      \* an observer's running totals of what the calls so far should have moved
    calls       \* number of calls that succeeded so far

vars == <<contract, amm, vault, book, pad, purses, now, last, audit, calls>>

\* the record of a call kept in last
Call(op, caller, args, outcome, store, p) ==
    CHOOSE c \in
      {[op |-> op, caller |-> caller, args |-> args, err |-> r.err, ret |-> r.ret,
        ran    |-> [store |-> r.store, purses |-> r.purses],
        store  |-> Commit(store, r.store, r.err),
        purses |-> Commit(p, r.purses, r.err)] : r \in {outcome}} : TRUE

(***************************************************************************)
(* Bounds of the model.                                                    *)
(***************************************************************************)
\* a behaviour makes at most this many successful calls of the contract it
\* exercises (and any number of reverted ones)
MaxAmmCalls == 4
MaxVaultCalls == 3
MaxBookCalls == 3
MaxPadCalls == 3
\* the block time advances at most MaxBlocks times
MaxBlocks == 2
\* under the launchpad every account's main purse starts with PadFundsCSPR
\* CSPR, enough for one platform fee of 20 CSPR
PadFundsCSPR == 25
\* every account's main purse starts with FundsCSPR CSPR
FundsCSPR == 3
\* token amounts passed to buy and sell: 0 .. MaxAmount
MaxAmount == 2

\* 1 CSPR in motes
CSPR == BigFromNat(1000000000)

Funds == BigMulLimb(CSPR, FundsCSPR)

PadFunds == BigMulLimb(CSPR, PadFundsCSPR)

(***************************************************************************)
(* Bonding-curve AMM (contracts/amm/src/main.rs).                          *)
(***************************************************************************)
SCALE == BigFromNat(1000000000)

AmmTraders == {Admin, Alice}

\* call(): the store as installed, admin = the installer's argument
AmmInstalled ==
    [admin         |-> Admin,
     total_supply  |-> BigZero,
     initial_price |-> BigZero,
     reserve_ratio |-> BigZero,
     initialized   |-> FALSE,
     balances      |-> [a \in Accounts |-> BigZero]]

\* an admin check that lets every caller through
not_admin_never(st, caller) == FALSE

\* only_admin reverts for a caller other than the stored admin
not_admin(st, caller) == caller # st.admin

\* an is_initialized that never sees the flag
\* an is_initialized that reads true on every store
is_initialized_always(st) == TRUE

is_initialized_never(st) == FALSE

is_initialized(st) == st.initialized
get_total_supply(st) == st.total_supply
\* a set_total_supply whose write is lost
set_total_supply_lost(st, supply) == st

set_total_supply(st, supply) == [st EXCEPT !.total_supply = supply]
get_initial_price(st) == st.initial_price
get_reserve_ratio(st) == st.reserve_ratio
get_user_balance(st, account) == st.balances[account]
\* a set_user_balance whose write is lost
set_user_balance_lost(st, account, balance) == st

set_user_balance(st, account, balance) == [st EXCEPT !.balances[account] = balance]

\* a price that takes the increase off the initial price
calculate_price_discount(st, supply) ==
    BigSub(get_initial_price(st),
           BigDiv(BigMul(BigDiv(BigMul(get_initial_price(st), get_reserve_ratio(st)),
                                BigFromNat(10000)), supply), SCALE))

calculate_price(st, supply) ==
    LET initial_price   == get_initial_price(st)
        reserve_ratio   == get_reserve_ratio(st)
        slope_numerator == BigMul(initial_price, reserve_ratio)
        slope_per_token == BigDiv(slope_numerator, BigFromNat(10000))
        price_increase  == BigDiv(BigMul(slope_per_token, supply), SCALE)
    IN BigAdd(initial_price, price_increase)

\* a cost without the quadratic part
calculate_buy_cost_linear(st, amount) == BigMul(get_initial_price(st), amount)

calculate_buy_cost(st, amount) ==
    LET supply          == get_total_supply(st)
        initial_price   == get_initial_price(st)
        reserve_ratio   == get_reserve_ratio(st)
        slope_numerator == BigMul(initial_price, reserve_ratio)
        linear_cost     == BigMul(initial_price, amount)
        s1              == supply
        s2              == BigAdd(supply, amount)
        s2_squared      == BigMul(s2, s2)
        s1_squared      == BigMul(s1, s1)
        diff_squared    == BigSub(s2_squared, s1_squared)
        quadratic_cost  == BigDiv(BigMul(slope_numerator, diff_squared),
                                  BigMul(BigFromNat(20000), SCALE))
    IN BigAdd(linear_cost, quadratic_cost)

\* a sell priced at the spot price of the current supply for every token
calculate_sell_proceeds_at_spot(st, amount) ==
    BigMul(calculate_price(st, get_total_supply(st)), amount)

\* defined for supply >= amount; the revert for supply < amount is in sell
calculate_sell_proceeds(st, amount) ==
    LET supply             == get_total_supply(st)
        initial_price      == get_initial_price(st)
        reserve_ratio      == get_reserve_ratio(st)
        slope_numerator    == BigMul(initial_price, reserve_ratio)
        linear_proceeds    == BigMul(initial_price, amount)
        s1                 == supply
        s2                 == BigSub(supply, amount)
        s1_squared         == BigMul(s1, s1)
        s2_squared         == BigMul(s2, s2)
        diff_squared       == BigSub(s1_squared, s2_squared)
        quadratic_proceeds == BigDiv(BigMul(slope_numerator, diff_squared),
                                     BigMul(BigFromNat(20000), SCALE))
    IN BigAdd(linear_proceeds, quadratic_proceeds)

\* U512 arithmetic panics when a product or a sum does not fit 512 bits:
\* whether an operation of calculate_price does
calculate_price_panics(st, supply) ==
    LET initial_price   == get_initial_price(st)
        reserve_ratio   == get_reserve_ratio(st)
        slope_per_token == BigDiv(BigMul(initial_price, reserve_ratio), BigFromNat(10000))
    IN \/ MulOverflows(initial_price, reserve_ratio)
       \/ MulOverflows(slope_per_token, supply)
       \/ AddOverflows(initial_price, BigDiv(BigMul(slope_per_token, supply), SCALE))

\* whether an operation of calculate_buy_cost panics
calculate_buy_cost_panics(st, amount) ==
    LET supply          == get_total_supply(st)
        initial_price   == get_initial_price(st)
        reserve_ratio   == get_reserve_ratio(st)
        slope_numerator == BigMul(initial_price, reserve_ratio)
        linear_cost     == BigMul(initial_price, amount)
        s2              == BigAdd(supply, amount)
        diff_squared    == BigSub(BigMul(s2, s2), BigMul(supply, supply))
    IN \/ MulOverflows(initial_price, reserve_ratio)
       \/ MulOverflows(initial_price, amount)
       \/ AddOverflows(supply, amount)
       \/ MulOverflows(s2, s2)
       \/ MulOverflows(slope_numerator, diff_squared)
       \/ AddOverflows(linear_cost,
                       BigDiv(BigMul(slope_numerator, diff_squared),
                              BigMul(BigFromNat(20000), SCALE)))

\* whether an operation of calculate_sell_proceeds panics, for supply >= amount
calculate_sell_proceeds_panics(st, amount) ==
    LET supply          == get_total_supply(st)
        initial_price   == get_initial_price(st)
        reserve_ratio   == get_reserve_ratio(st)
        slope_numerator == BigMul(initial_price, reserve_ratio)
        linear_proceeds == BigMul(initial_price, amount)
        s2              == BigSub(supply, amount)
        diff_squared    == BigSub(BigMul(supply, supply), BigMul(s2, s2))
    IN \/ MulOverflows(initial_price, reserve_ratio)
       \/ MulOverflows(initial_price, amount)
       \/ MulOverflows(supply, supply)
       \/ MulOverflows(slope_numerator, diff_squared)
       \/ AddOverflows(linear_proceeds,
                       BigDiv(BigMul(slope_numerator, diff_squared),
                              BigMul(BigFromNat(20000), SCALE)))

initialize(st, p, caller, initial_price, reserve_ratio) ==
    IF not_admin(st, caller) THEN Outcome(st, p, "NotAuthorized", NoValue)
    ELSE IF is_initialized(st) THEN Outcome(st, p, "AlreadyInitialized", NoValue)
    ELSE IF BigIsZero(initial_price) THEN Outcome(st, p, "InvalidAmount", NoValue)
    ELSE Outcome([st EXCEPT !.initial_price = initial_price,
                            !.reserve_ratio = reserve_ratio,
                            !.initialized   = TRUE], p, Ok, NoValue)

\* a buy that never compares the cost with max_cost
buy_any_cost(st, p, caller, token_amount, max_cost, ledger_ok) ==
    IF ~is_initialized(st) THEN Outcome(st, p, "NotInitialized", NoValue)
    ELSE IF BigIsZero(token_amount) THEN Outcome(st, p, "InvalidAmount", NoValue)
    ELSE IF calculate_buy_cost_panics(st, token_amount)
    THEN Outcome(st, p, "panic", NoValue)
    ELSE LET cost == calculate_buy_cost(st, token_amount)
             t    == transfer(p, caller, AmmReserve, cost, ledger_ok) IN
         IF ~t.ok THEN Outcome(st, p, "TransferFailed", NoValue)
         ELSE LET new_supply == BigAdd(get_total_supply(st), token_amount)
                  st1 == set_total_supply(st, new_supply)
                  current_balance == get_user_balance(st1, caller)
                  st2 == set_user_balance(st1, caller,
                                          BigAdd(current_balance, token_amount))
              IN IF AddOverflows(current_balance, token_amount)
                 THEN Outcome(st1, t.purses, "panic", NoValue)
                 ELSE Outcome(st2, t.purses, Ok, NoValue)

buy(st, p, caller, token_amount, max_cost, ledger_ok) ==
    IF ~is_initialized(st) THEN Outcome(st, p, "NotInitialized", NoValue)
    ELSE IF BigIsZero(token_amount) THEN Outcome(st, p, "InvalidAmount", NoValue)
    ELSE IF calculate_buy_cost_panics(st, token_amount)
    THEN Outcome(st, p, "panic", NoValue)
    ELSE LET cost == calculate_buy_cost(st, token_amount) IN
         IF BigGt(cost, max_cost) THEN Outcome(st, p, "SlippageExceeded", NoValue)
         ELSE LET t == transfer(p, caller, AmmReserve, cost, ledger_ok) IN
              IF ~t.ok THEN Outcome(st, p, "TransferFailed", NoValue)
              ELSE LET new_supply == BigAdd(get_total_supply(st), token_amount)
                       st1 == set_total_supply(st, new_supply)
                       current_balance == get_user_balance(st1, caller)
                       st2 == set_user_balance(st1, caller,
                                               BigAdd(current_balance, token_amount))
                   IN IF AddOverflows(current_balance, token_amount)
                      THEN Outcome(st1, t.purses, "panic", NoValue)
                      ELSE Outcome(st2, t.purses, Ok, NoValue)

get_price(st, p) ==
    LET supply == get_total_supply(st) IN
    IF calculate_price_panics(st, supply) THEN Outcome(st, p, "panic", NoValue)
    ELSE Outcome(st, p, Ok, calculate_price(st, supply))

\* a reserve check that never refuses
insufficient_reserve_never(reserve_balance, proceeds) == FALSE

insufficient_reserve(reserve_balance, proceeds) == BigLt(reserve_balance, proceeds)

sell(st, p, caller, token_amount, min_proceeds, ledger_ok) ==
    IF ~is_initialized(st) THEN Outcome(st, p, "NotInitialized", NoValue)
    ELSE IF BigIsZero(token_amount) THEN Outcome(st, p, "InvalidAmount", NoValue)
    ELSE LET current_balance == get_user_balance(st, caller) IN
         IF BigLt(current_balance, token_amount)
         THEN Outcome(st, p, "InsufficientTokens", NoValue)
         ELSE IF BigLt(get_total_supply(st), token_amount)
         THEN Outcome(st, p, "InsufficientTokens", NoValue)
         ELSE IF calculate_sell_proceeds_panics(st, token_amount)
         THEN Outcome(st, p, "panic", NoValue)
         ELSE LET proceeds == calculate_sell_proceeds(st, token_amount) IN
              IF BigLt(proceeds, min_proceeds)
              THEN Outcome(st, p, "SlippageExceeded", NoValue)
              ELSE IF insufficient_reserve(p[AmmReserve], proceeds)
              THEN Outcome(st, p, "InsufficientReserve", NoValue)
              ELSE LET st1 == set_user_balance(st, caller,
                                               BigSub(current_balance, token_amount))
                       new_supply == BigSub(get_total_supply(st1), token_amount)
                       st2 == set_total_supply(st1, new_supply)
                       t   == transfer(p, AmmReserve, caller, proceeds, ledger_ok)
                   IN IF ~t.ok THEN Outcome(st2, p, "TransferFailed", NoValue)
                      ELSE Outcome(st2, t.purses, Ok, NoValue)

deposit_reserve(st, p, caller, amount, ledger_ok) ==
    IF not_admin(st, caller) THEN Outcome(st, p, "NotAuthorized", NoValue)
    ELSE IF BigIsZero(amount) THEN Outcome(st, p, "InvalidAmount", NoValue)
    ELSE LET t == transfer(p, caller, AmmReserve, amount, ledger_ok) IN
         IF ~t.ok THEN Outcome(st, p, "TransferFailed", NoValue)
         ELSE Outcome(st, t.purses, Ok, NoValue)

admin_withdraw(st, p, caller, amount, recipient, ledger_ok) ==
    IF not_admin(st, caller) THEN Outcome(st, p, "NotAuthorized", NoValue)
    ELSE IF BigLt(p[AmmReserve], amount)
    THEN Outcome(st, p, "InsufficientReserve", NoValue)
    ELSE LET t == transfer(p, AmmReserve, recipient, amount, ledger_ok) IN
         IF ~t.ok THEN Outcome(st, p, "TransferFailed", NoValue)
         ELSE Outcome(st, t.purses, Ok, NoValue)


\* arguments the AMM's callers choose from
TokenAmounts == {BigFromNat(n) : n \in 0..MaxAmount}
PriceChoices == {BigZero, CSPR, U512_MAX}
RatioChoices == {BigZero, BigFromNat(10000)}
MaxCostChoices == {BigMulLimb(CSPR, 2), BigMulLimb(CSPR, 1000)}
MinProceedsChoices == {BigZero, BigMulLimb(CSPR, 2)}
ReserveAmounts == {BigZero, CSPR}

\* A call of each entry point in the state (st, p), with its outcome.  quote
\* is what the curve prices the trade at in that state.
InitializeCall(st, p, caller, initial_price, reserve_ratio) ==
    Call("initialize", caller,
         [initial_price |-> initial_price, reserve_ratio |-> reserve_ratio],
         initialize(st, p, caller, initial_price, reserve_ratio), st, p)

BuyCall(st, p, caller, token_amount, max_cost, ledger_ok) ==
    Call("buy", caller,
         [token_amount |-> token_amount, max_cost |-> max_cost, ledger_ok |-> ledger_ok,
          quote |-> calculate_buy_cost(st, token_amount)],
         buy(st, p, caller, token_amount, max_cost, ledger_ok), st, p)

SellCall(st, p, caller, token_amount, min_proceeds, ledger_ok) ==
    Call("sell", caller,
         [token_amount |-> token_amount, min_proceeds |-> min_proceeds,
          ledger_ok |-> ledger_ok,
          quote |-> IF BigGe(get_total_supply(st), token_amount)
                    THEN calculate_sell_proceeds(st, token_amount) ELSE BigZero],
         sell(st, p, caller, token_amount, min_proceeds, ledger_ok), st, p)

DepositReserveCall(st, p, caller, amount, ledger_ok) ==
    Call("deposit_reserve", caller, [amount |-> amount, ledger_ok |-> ledger_ok],
         deposit_reserve(st, p, caller, amount, ledger_ok), st, p)

AdminWithdrawCall(st, p, caller, amount, recipient, ledger_ok) ==
    Call("admin_withdraw", caller,
         [amount |-> amount, recipient |-> recipient, ledger_ok |-> ledger_ok],
         admin_withdraw(st, p, caller, amount, recipient, ledger_ok), st, p)

\* the calls of each entry point that can be made in the current state
InitializeCalls ==
    {InitializeCall(amm, purses, caller, initial_price, reserve_ratio) :
        caller \in AmmTraders, initial_price \in PriceChoices, reserve_ratio \in RatioChoices}

BuyCalls ==
    {BuyCall(amm, purses, caller, token_amount, max_cost, ledger_ok) :
        caller \in AmmTraders, token_amount \in TokenAmounts, max_cost \in MaxCostChoices,
        ledger_ok \in BOOLEAN}

SellCalls ==
    {SellCall(amm, purses, caller, token_amount, min_proceeds, ledger_ok) :
        caller \in AmmTraders, token_amount \in TokenAmounts,
        min_proceeds \in MinProceedsChoices, ledger_ok \in BOOLEAN}

DepositReserveCalls ==
    {DepositReserveCall(amm, purses, caller, amount, ledger_ok) :
        caller \in AmmTraders, amount \in ReserveAmounts, ledger_ok \in BOOLEAN}

AdminWithdrawCalls ==
    {AdminWithdrawCall(amm, purses, caller, amount, recipient, ledger_ok) :
        caller \in AmmTraders, amount \in ReserveAmounts, recipient \in AmmTraders,
        ledger_ok \in BOOLEAN}

\* what a call leaves in last: a call that reverted is not recorded
Seen(c) == IF c.err = Ok
           THEN [op |-> c.op, caller |-> c.caller, ret |-> c.ret]
           ELSE last

Count(c) == IF c.err = Ok THEN calls + 1 ELSE calls

AmmStep(c) ==
    /\ contract = "amm"
    /\ calls < MaxAmmCalls
    /\ amm' = c.store
    /\ purses' = c.purses
    /\ last' = Seen(c)
    /\ calls' = Count(c)
    /\ UNCHANGED <<contract, vault, book, pad, now>>

\* audit.reserve: costs of the successful buys and deposits so far minus the
\* proceeds of the successful sells and withdrawals; audit.supply: token
\* amounts of the successful buys minus those of the successful sells;
\* audit.inits: the arguments of the successful initialize calls, in call order;
\* audit.withdrawn: an admin_withdraw has succeeded
AmmInitialize ==
    \E c \in InitializeCalls :
        /\ AmmStep(c)
        /\ audit' = IF c.err = Ok
                    THEN [audit EXCEPT !.inits = Append(@, c.args)]
                    ELSE audit

AmmBuy ==
    \E c \in BuyCalls :
        /\ AmmStep(c)
        /\ audit' = IF c.err = Ok
                    THEN [audit EXCEPT !.reserve = BigAdd(@, c.args.quote),
                                       !.supply  = BigAdd(@, c.args.token_amount)]
                    ELSE audit

AmmSell ==
    \E c \in SellCalls :
        /\ AmmStep(c)
        /\ audit' = IF c.err = Ok
                    THEN [audit EXCEPT !.reserve = BigSub(@, c.args.quote),
                                       !.supply  = BigSub(@, c.args.token_amount)]
                    ELSE audit

AmmDepositReserve ==
    \E c \in DepositReserveCalls :
        /\ AmmStep(c)
        /\ audit' = IF c.err = Ok
                    THEN [audit EXCEPT !.reserve = BigAdd(@, c.args.amount)]
                    ELSE audit

AmmAdminWithdraw ==
    \E c \in AdminWithdrawCalls :
        /\ AmmStep(c)
        /\ audit' = IF c.err = Ok
                    THEN [audit EXCEPT !.reserve = BigSub(@, c.args.amount),
                                       !.withdrawn = TRUE]
                    ELSE audit

NextAmm ==
    \/ AmmInitialize
    \/ AmmBuy
    \/ AmmSell
    \/ AmmDepositReserve
    \/ AmmAdminWithdraw

(***************************************************************************)
(* Dictionaries (storage::new_dictionary): a function from the keys that   *)
(* were put to the values last put under them.                             *)
(***************************************************************************)
new_dictionary == <<>>

\* dictionary_get(..).is_some()
dictionary_has(d, key) == key \in DOMAIN d

dictionary_put(d, key, value) ==
    [k \in DOMAIN d \cup {key} |-> IF k = key THEN value ELSE d[k]]

(***************************************************************************)
(* Token vault (contracts/contract/src/main.rs).                           *)
(***************************************************************************)
OrderIds == {"order-1", "order-2"}

VaultCallers == {Default, Admin, Alice, Bob}

\* call(): the store as installed; the order book is the default identity
VaultInstalled ==
    [admin        |-> Admin,
     order_book   |-> Default,
     locked_cspr  |-> new_dictionary,
     order_owners |-> new_dictionary]

\* an only_admin that lets every caller through
only_admin_anyone(st, caller) == TRUE

\* TRUE when only_admin returns, FALSE when it reverts with NotAuthorized
only_admin(st, caller) == caller = st.admin

\* an only_order_book_or_admin without the guard on the default identity
only_order_book_or_admin_unguarded(st, caller) ==
    caller = st.admin \/ caller = st.order_book

\* TRUE when only_order_book_or_admin returns, FALSE when it reverts
only_order_book_or_admin(st, caller) ==
    IF caller = st.admin THEN TRUE
    ELSE LET order_book == st.order_book IN
         IF caller = order_book /\ order_book # Default THEN TRUE
         ELSE FALSE

\* a lock_cspr that takes an entry that is down to zero for no entry
lock_cspr_over_zero(st, p, caller, order_id, amount, ledger_ok) ==
    IF BigIsZero(amount) THEN Outcome(st, p, "InvalidAmount", NoValue)
    ELSE IF dictionary_has(st.locked_cspr, order_id)
            /\ ~BigIsZero(st.locked_cspr[order_id])
    THEN Outcome(st, p, "AlreadyLocked", NoValue)
    ELSE LET t == transfer(p, caller, VaultPurse, amount, ledger_ok) IN
         IF ~t.ok THEN Outcome(st, p, "TransferFailed", NoValue)
         ELSE LET st1 == [st EXCEPT !.locked_cspr = dictionary_put(@, order_id, amount)]
                  st2 == [st1 EXCEPT !.order_owners = dictionary_put(@, order_id, caller)]
              IN Outcome(st2, t.purses, Ok, NoValue)

\* payment_purse is the caller's main purse
lock_cspr(st, p, caller, order_id, amount, ledger_ok) ==
    IF BigIsZero(amount) THEN Outcome(st, p, "InvalidAmount", NoValue)
    ELSE IF dictionary_has(st.locked_cspr, order_id)
    THEN Outcome(st, p, "AlreadyLocked", NoValue)
    ELSE LET t == transfer(p, caller, VaultPurse, amount, ledger_ok) IN
         IF ~t.ok THEN Outcome(st, p, "TransferFailed", NoValue)
         ELSE LET st1 == [st EXCEPT !.locked_cspr = dictionary_put(@, order_id, amount)]
                  st2 == [st1 EXCEPT !.order_owners = dictionary_put(@, order_id, caller)]
              IN Outcome(st2, t.purses, Ok, NoValue)

\* an unlock_cspr that puts back the amount it read
unlock_cspr_keeps_locked(st, p, caller, order_id, recipient, amount, ledger_ok) ==
    IF ~only_order_book_or_admin(st, caller) THEN Outcome(st, p, "NotAuthorized", NoValue)
    ELSE IF ~dictionary_has(st.locked_cspr, order_id)
    THEN Outcome(st, p, "OrderNotFound", NoValue)
    ELSE LET locked == st.locked_cspr[order_id] IN
         IF BigLt(locked, amount) THEN Outcome(st, p, "InsufficientBalance", NoValue)
         ELSE LET t == transfer(p, VaultPurse, recipient, amount, ledger_ok) IN
              IF ~t.ok THEN Outcome(st, p, "TransferFailed", NoValue)
              ELSE Outcome([st EXCEPT !.locked_cspr = dictionary_put(@, order_id, locked)],
                           t.purses, Ok, NoValue)

unlock_cspr(st, p, caller, order_id, recipient, amount, ledger_ok) ==
    IF ~only_order_book_or_admin(st, caller) THEN Outcome(st, p, "NotAuthorized", NoValue)
    ELSE IF ~dictionary_has(st.locked_cspr, order_id)
    THEN Outcome(st, p, "OrderNotFound", NoValue)
    ELSE LET locked == st.locked_cspr[order_id] IN
         IF BigLt(locked, amount) THEN Outcome(st, p, "InsufficientBalance", NoValue)
         ELSE LET t == transfer(p, VaultPurse, recipient, amount, ledger_ok) IN
              IF ~t.ok THEN Outcome(st, p, "TransferFailed", NoValue)
              ELSE LET remaining == BigSub(locked, amount) IN
                   Outcome([st EXCEPT !.locked_cspr = dictionary_put(@, order_id, remaining)],
                           t.purses, Ok, NoValue)

\* a cancel_order that does not compare the caller with the owner
vault_cancel_order_by_anyone(st, p, caller, order_id, ledger_ok) ==
    IF ~dictionary_has(st.order_owners, order_id)
    THEN Outcome(st, p, "OrderNotFound", NoValue)
    ELSE LET locked == IF dictionary_has(st.locked_cspr, order_id)
                       THEN st.locked_cspr[order_id] ELSE BigZero IN
         IF BigGt(locked, BigZero)
         THEN LET t == transfer(p, VaultPurse, caller, locked, ledger_ok) IN
              IF ~t.ok THEN Outcome(st, p, "TransferFailed", NoValue)
              ELSE Outcome([st EXCEPT !.locked_cspr = dictionary_put(@, order_id, BigZero)],
                           t.purses, Ok, NoValue)
         ELSE Outcome(st, p, Ok, NoValue)

\* cancel_order of the vault
vault_cancel_order(st, p, caller, order_id, ledger_ok) ==
    IF ~dictionary_has(st.order_owners, order_id)
    THEN Outcome(st, p, "OrderNotFound", NoValue)
    ELSE LET owner == st.order_owners[order_id] IN
         IF owner # caller THEN Outcome(st, p, "NotOrderOwner", NoValue)
         ELSE LET locked == IF dictionary_has(st.locked_cspr, order_id)
                            THEN st.locked_cspr[order_id] ELSE BigZero IN
              IF BigGt(locked, BigZero)
              THEN LET t == transfer(p, VaultPurse, caller, locked, ledger_ok) IN
                   IF ~t.ok THEN Outcome(st, p, "TransferFailed", NoValue)
                   ELSE Outcome([st EXCEPT
                                   !.locked_cspr = dictionary_put(@, order_id, BigZero)],
                                t.purses, Ok, NoValue)
              ELSE Outcome(st, p, Ok, NoValue)

set_order_book(st, p, caller, order_book) ==
    IF ~only_admin(st, caller) THEN Outcome(st, p, "NotAuthorized", NoValue)
    ELSE Outcome([st EXCEPT !.order_book = order_book], p, Ok, NoValue)

\* get_locked_amount: what it returns, zero for an unknown id
get_locked_amount(st, order_id) ==
    IF dictionary_has(st.locked_cspr, order_id) THEN st.locked_cspr[order_id] ELSE BigZero

\* arguments the vault's callers choose from
VaultAmounts == {BigMulLimb(CSPR, n) : n \in 0..MaxAmount}
Recipients == {Alice, Bob}
OrderBookChoices == {Default, Bob}

LockCall(st, p, caller, order_id, amount, ledger_ok) ==
    Call("lock_cspr", caller,
         [order_id |-> order_id, amount |-> amount, ledger_ok |-> ledger_ok],
         lock_cspr(st, p, caller, order_id, amount, ledger_ok), st, p)

UnlockCall(st, p, caller, order_id, recipient, amount, ledger_ok) ==
    Call("unlock_cspr", caller,
         [order_id |-> order_id, recipient |-> recipient, amount |-> amount,
          ledger_ok |-> ledger_ok],
         unlock_cspr(st, p, caller, order_id, recipient, amount, ledger_ok), st, p)

VaultCancelCall(st, p, caller, order_id, ledger_ok) ==
    Call("cancel_order", caller, [order_id |-> order_id, ledger_ok |-> ledger_ok],
         vault_cancel_order(st, p, caller, order_id, ledger_ok), st, p)

SetOrderBookCall(st, p, caller, order_book) ==
    Call("set_order_book", caller, [order_book |-> order_book],
         set_order_book(st, p, caller, order_book), st, p)

\* the calls of each entry point that can be made in the current state
LockCalls ==
    {LockCall(vault, purses, caller, order_id, amount, ledger_ok) :
        caller \in VaultCallers, order_id \in OrderIds, amount \in VaultAmounts,
        ledger_ok \in BOOLEAN}

UnlockCalls ==
    {UnlockCall(vault, purses, caller, order_id, recipient, amount, ledger_ok) :
        caller \in VaultCallers, order_id \in OrderIds, recipient \in Recipients,
        amount \in VaultAmounts, ledger_ok \in BOOLEAN}

VaultCancelCalls ==
    {VaultCancelCall(vault, purses, caller, order_id, ledger_ok) :
        caller \in VaultCallers, order_id \in OrderIds, ledger_ok \in BOOLEAN}

SetOrderBookCalls ==
    {SetOrderBookCall(vault, purses, caller, order_book) :
        caller \in VaultCallers, order_book \in OrderBookChoices}

VaultStep(c) ==
    /\ contract = "vault"
    /\ calls < MaxVaultCalls
    /\ vault' = c.store
    /\ purses' = c.purses
    /\ last' = Seen(c)
    /\ calls' = Count(c)
    /\ UNCHANGED <<contract, amm, book, pad, now>>

\* what the call takes out of the vault purse
PaidOutOf(c, before) == BigSub(before[VaultPurse], c.purses[VaultPurse])

\* audit.locks[id]: number of successful locks of id so far; audit.locker[id]:
\* the caller of the last of them; audit.order_book: the argument of the last
\* successful set_order_book; audit.locked_in[id]: the amount of the successful
\* lock of id; audit.paid_out[id]: the motes the successful unlocks and cancels
\* of id have taken out of the vault purse
VaultLock ==
    \E c \in LockCalls :
        /\ VaultStep(c)
        /\ audit' = IF c.err = Ok
                    THEN [audit EXCEPT !.locks[c.args.order_id] = @ + 1,
                                       !.locker[c.args.order_id] = c.caller,
                                       !.locked_in[c.args.order_id] = c.args.amount]
                    ELSE audit

VaultUnlock ==
    \E c \in UnlockCalls :
        /\ VaultStep(c)
        /\ audit' = IF c.err = Ok
                    THEN [audit EXCEPT !.paid_out[c.args.order_id] =
                                           BigAdd(@, PaidOutOf(c, purses))]
                    ELSE audit

VaultCancelOrder ==
    \E c \in VaultCancelCalls :
        /\ VaultStep(c)
        /\ audit' = IF c.err = Ok
                    THEN [audit EXCEPT !.paid_out[c.args.order_id] =
                                           BigAdd(@, PaidOutOf(c, purses))]
                    ELSE audit

VaultSetOrderBook ==
    \E c \in SetOrderBookCalls :
        /\ VaultStep(c)
        /\ audit' = IF c.err = Ok
                    THEN [audit EXCEPT !.order_book = c.args.order_book]
                    ELSE audit

NextVault ==
    \/ VaultLock
    \/ VaultUnlock
    \/ VaultCancelOrder
    \/ VaultSetOrderBook


(***************************************************************************)
(* Strings.  A string is the sequence of its characters, a character is a  *)
(* number: a decimal or hex digit is its value (0..9, a..f = 10..15), the  *)
(* comma is Comma, and every other character is a number above Comma.      *)
(***************************************************************************)
Comma == 16

\* str::split(',').collect(): the pieces between consecutive commas, commas
\* being the positions of the commas in increasing order
split(str) ==
    LET IsComma(i) == str[i] = Comma
        Fields(commas) ==
            [k \in 1..(Len(commas) + 1) |->
                SubSeq(str, (IF k = 1 THEN 0 ELSE commas[k - 1]) + 1,
                            (IF k > Len(commas) THEN Len(str) + 1 ELSE commas[k]) - 1)]
    IN  CHOOSE parts \in {Fields(commas) :
                             commas \in {SelectSeq([i \in 1..Len(str) |-> i], IsComma)}} : TRUE

\* the largest u64: 2^64 - 1, with 2^64 = (2^13)^4 * 2^12
u64_MAX == BigSub(BigMulLimb(BigPowLimb(8192, 4), 4096), <<1>>)

\* the four decimal digits of a limb
LimbDigits(l) == <<l \div 1000, (l \div 100) % 10, (l \div 10) % 10, l % 10>>

\* the decimal digits of the limbs x[1..i], most significant first
LimbsDigits(x, i) ==
    [k \in 1..(4 * i) |-> LimbDigits(x[i - ((k - 1) \div 4)])[((k - 1) % 4) + 1]]

RECURSIVE StripLeadingZeros(_)
StripLeadingZeros(d) ==
    IF Len(d) > 1 /\ d[1] = 0 THEN StripLeadingZeros(Tail(d)) ELSE d

\* U512 and u64 as Display: the decimal digits, "0" for zero
U512_to_string(x) ==
    IF x = <<>> THEN <<0>> ELSE StripLeadingZeros(LimbsDigits(x, Len(x)))

\* the value of the digits d in the given radix
RECURSIVE FromDigits(_, _, _, _)
FromDigits(d, radix, i, acc) ==
    IF i > Len(d) THEN acc
    ELSE FromDigits(d, radix, i + 1, BigAdd(BigMulLimb(acc, radix), BigFromNat(d[i])))

AllBelow(d, radix) == \A i \in 1..Len(d) : d[i] < radix

\* str::parse::<U512>().unwrap_or(U512::zero()): U512's FromStr reads the
\* characters as hex digits, at most 128 of them, and fails on anything else
U512_parse_or_zero(d) ==
    IF Len(d) = 0 \/ Len(d) > 128 \/ ~AllBelow(d, 16) THEN BigZero
    ELSE FromDigits(d, 16, 1, BigZero)

\* str::parse::<u64>().unwrap_or(u64::MAX): decimal digits of a value that
\* fits 64 bits, which one of fewer than 20 digits does
u64_parse_or_max(d) ==
    IF Len(d) = 0 \/ ~AllBelow(d, 10) THEN u64_MAX
    ELSE LET v == FromDigits(d, 10, 1, BigZero) IN
         IF Len(d) >= 20 /\ BigGt(v, u64_MAX) THEN u64_MAX ELSE v

\* str::parse::<u8>().unwrap_or(255): decimal digits of a value up to 255
u8_parse_or_255(d) ==
    IF Len(d) = 0 \/ ~AllBelow(d, 10) THEN 255
    ELSE LET v == FromDigits(d, 10, 1, BigZero) IN
         IF BigGt(v, BigFromNat(255)) THEN 255 ELSE BigToNat(v)

\* u8 as Display, for the values 0..9 the contracts format
u8_to_string(n) == <<n>>

\* str::contains
contains(haystack, needle) ==
    \E k \in 0..(Len(haystack) - Len(needle)) :
        \A i \in 1..Len(needle) : haystack[k + i] = needle[i]

(***************************************************************************)
(* Order book (contracts/orderbook/src/main.rs).                           *)
(***************************************************************************)
SIDE_BUY == 0
SIDE_SELL == 1
STATUS_OPEN == 0
STATUS_FILLED == 1
STATUS_CANCELLED == 2
STATUS_PARTIAL == 3

BookTraders == {Alice, Bob, Mallory}
\* the accounts that deposit tokens and place orders; Mallory only cancels
BookOwners == {Alice, Bob}

\* call(): the store as installed
BookInstalled ==
    [admin          |-> Admin,
     order_counter  |-> 0,
     best_bid       |-> BigZero,
     best_ask       |-> U512_MAX,
     orders         |-> new_dictionary,
     user_orders    |-> new_dictionary,
     token_balances |-> new_dictionary]

get_order_counter(st) == st.order_counter
\* a write of the order counter that is lost
set_order_counter_lost(st, value) == st
set_order_counter(st, value) == [st EXCEPT !.order_counter = value]
get_best_bid(st) == st.best_bid
\* a write of best_bid that is lost
set_best_bid_lost(st, price) == st
set_best_bid(st, price) == [st EXCEPT !.best_bid = price]
get_best_ask(st) == st.best_ask
\* a write of best_ask that is lost
set_best_ask_lost(st, price) == st

set_best_ask(st, price) == [st EXCEPT !.best_ask = price]

get_token_balance(st, account) ==
    IF dictionary_has(st.token_balances, account)
    THEN st.token_balances[account] ELSE BigZero

set_token_balance(st, account, balance) ==
    [st EXCEPT !.token_balances = dictionary_put(@, account, balance)]

\* the string owner_hex,side,price,amount,filled,status
\* an encoding that records every order as filled in full
encode_order_filled(owner, side, price, amount, filled, status) ==
    to_string(owner) \o <<Comma>> \o u8_to_string(side) \o <<Comma>>
        \o U512_to_string(price) \o <<Comma>> \o U512_to_string(amount) \o <<Comma>>
        \o U512_to_string(amount) \o <<Comma>> \o u8_to_string(STATUS_FILLED)

encode_order(owner, side, price, amount, filled, status) ==
    to_string(owner) \o <<Comma>> \o u8_to_string(side) \o <<Comma>>
        \o U512_to_string(price) \o <<Comma>> \o U512_to_string(amount) \o <<Comma>>
        \o U512_to_string(filled) \o <<Comma>> \o u8_to_string(status)

\* price * amount / 1_000_000_000
total_cost_of(price, amount) == BigDiv(BigMul(price, amount), BigFromNat(1000000000))

\* payment_purse is the caller's main purse
place_buy_order(st, p, caller, price, amount, ledger_ok) ==
    IF BigIsZero(price) THEN Outcome(st, p, "InvalidPrice", NoValue)
    ELSE IF BigIsZero(amount) THEN Outcome(st, p, "InvalidAmount", NoValue)
    ELSE IF MulOverflows(price, amount) THEN Outcome(st, p, "panic", NoValue)
    ELSE LET total_cost == total_cost_of(price, amount)
             t == transfer(p, caller, BookEscrow, total_cost, ledger_ok) IN
         IF ~t.ok THEN Outcome(st, p, "TransferFailed", NoValue)
         ELSE LET order_id == get_order_counter(st) + 1
                  st1 == set_order_counter(st, order_id)
                  order_data == encode_order(caller, SIDE_BUY, price, amount, BigZero,
                                             STATUS_OPEN)
                  st2 == [st1 EXCEPT !.orders = dictionary_put(@, order_id, order_data)]
                  current_best_bid == get_best_bid(st2)
                  st3 == IF BigGt(price, current_best_bid)
                         THEN set_best_bid(st2, price) ELSE st2
              IN Outcome(st3, t.purses, Ok, order_id)

\* a balance check that lets every amount through
insufficient_tokens_never(user_balance, amount) == FALSE

\* the balance check of place_sell_order
insufficient_tokens(user_balance, amount) == BigLt(user_balance, amount)

place_sell_order(st, p, caller, price, amount) ==
    IF BigIsZero(price) THEN Outcome(st, p, "InvalidPrice", NoValue)
    ELSE IF BigIsZero(amount) THEN Outcome(st, p, "InvalidAmount", NoValue)
    ELSE LET user_balance == get_token_balance(st, caller) IN
         IF insufficient_tokens(user_balance, amount)
         THEN Outcome(st, p, "InsufficientFunds", NoValue)
         ELSE LET st0 == set_token_balance(st, caller, BigSub(user_balance, amount))
                  order_id == get_order_counter(st0) + 1
                  st1 == set_order_counter(st0, order_id)
                  order_data == encode_order(caller, SIDE_SELL, price, amount, BigZero,
                                             STATUS_OPEN)
                  st2 == [st1 EXCEPT !.orders = dictionary_put(@, order_id, order_data)]
                  current_best_ask == get_best_ask(st2)
                  st3 == IF BigLt(price, current_best_ask)
                         THEN set_best_ask(st2, price) ELSE st2
              IN Outcome(st3, p, Ok, order_id)

\* a cancel that skips the status check
cancellable_always(status) == TRUE

\* the statuses cancel_order accepts: Open and PartiallyFilled
cancellable(status) == status = STATUS_OPEN \/ status = STATUS_PARTIAL

\* cancel_order of the order book; parts[1] here is parts[0] there
book_cancel_order(st, p, caller, order_id, ledger_ok) ==
    IF ~dictionary_has(st.orders, order_id)
    THEN Outcome(st, p, "OrderNotFound", NoValue)
    ELSE LET parts == split(st.orders[order_id]) IN
         IF Len(parts) < 6 THEN Outcome(st, p, "OrderNotFound", NoValue)
         ELSE IF ~contains(parts[1], SubSeq(to_string(caller), 13 + 1, HashDigits))
         THEN Outcome(st, p, "NotAuthorized", NoValue)
         ELSE LET side   == u8_parse_or_255(parts[2])
                  _price == U512_parse_or_zero(parts[3])
                  amount == U512_parse_or_zero(parts[4])
                  filled == U512_parse_or_zero(parts[5])
                  status == u8_parse_or_255(parts[6]) IN
              IF ~cancellable(status)
              THEN Outcome(st, p, "OrderAlreadyFilled", NoValue)
              ELSE IF BigLt(amount, filled) THEN Outcome(st, p, "panic", NoValue)
              ELSE LET unfilled == BigSub(amount, filled)
                       cancelled_order == encode_order(caller, side, _price, amount, filled,
                                                       STATUS_CANCELLED) IN
                   IF side = SIDE_BUY
                   THEN IF MulOverflows(_price, unfilled)
                        THEN Outcome(st, p, "panic", NoValue)
                        ELSE LET total_refund == total_cost_of(_price, unfilled)
                                 t == transfer(p, BookEscrow, caller, total_refund,
                                               ledger_ok) IN
                             IF ~t.ok THEN Outcome(st, p, "TransferFailed", NoValue)
                             ELSE Outcome([st EXCEPT !.orders =
                                              dictionary_put(@, order_id, cancelled_order)],
                                          t.purses, Ok, NoValue)
                   ELSE LET current_balance == get_token_balance(st, caller)
                            st1 == set_token_balance(st, caller,
                                                     BigAdd(current_balance, unfilled)) IN
                        IF AddOverflows(current_balance, unfilled)
                        THEN Outcome(st, p, "panic", NoValue)
                        ELSE Outcome([st1 EXCEPT !.orders =
                                         dictionary_put(@, order_id, cancelled_order)],
                                     p, Ok, NoValue)

deposit_tokens(st, p, caller, amount) ==
    IF BigIsZero(amount) THEN Outcome(st, p, "InvalidAmount", NoValue)
    ELSE LET current_balance == get_token_balance(st, caller) IN
         IF AddOverflows(current_balance, amount) THEN Outcome(st, p, "panic", NoValue)
         ELSE Outcome(set_token_balance(st, caller, BigAdd(current_balance, amount)),
                      p, Ok, NoValue)

withdraw_tokens(st, p, caller, amount) ==
    IF BigIsZero(amount) THEN Outcome(st, p, "InvalidAmount", NoValue)
    ELSE LET current_balance == get_token_balance(st, caller) IN
         IF BigLt(current_balance, amount)
         THEN Outcome(st, p, "InsufficientFunds", NoValue)
         ELSE Outcome(set_token_balance(st, caller, BigSub(current_balance, amount)),
                      p, Ok, NoValue)

\* arguments the order book's callers choose from; 7 is an amount whose
\* escrow is a few motes, CSPR as an amount is one token of 9 decimals
BuyPrices == {BigZero, CSPR, BigMulLimb(CSPR, 2), U512_MAX}
SellPrices == {BigZero, CSPR, BigMulLimb(CSPR, 2)}
BookAmounts == {BigZero, BigFromNat(7), CSPR}
TokenDeposits == {BigZero, CSPR}
OrderNumbers == 1..MaxBookCalls

PlaceBuyOrderCall(st, p, caller, price, amount, ledger_ok) ==
    Call("place_buy_order", caller,
         [price |-> price, amount |-> amount, ledger_ok |-> ledger_ok],
         place_buy_order(st, p, caller, price, amount, ledger_ok), st, p)

PlaceSellOrderCall(st, p, caller, price, amount) ==
    Call("place_sell_order", caller, [price |-> price, amount |-> amount],
         place_sell_order(st, p, caller, price, amount), st, p)

BookCancelCall(st, p, caller, order_id, ledger_ok) ==
    Call("cancel_order", caller, [order_id |-> order_id, ledger_ok |-> ledger_ok],
         book_cancel_order(st, p, caller, order_id, ledger_ok), st, p)

DepositTokensCall(st, p, caller, amount) ==
    Call("deposit_tokens", caller, [amount |-> amount],
         deposit_tokens(st, p, caller, amount), st, p)

WithdrawTokensCall(st, p, caller, amount) ==
    Call("withdraw_tokens", caller, [amount |-> amount],
         withdraw_tokens(st, p, caller, amount), st, p)

\* the calls of each entry point that can be made in the current state
PlaceBuyOrderCalls ==
    {PlaceBuyOrderCall(book, purses, caller, price, amount, ledger_ok) :
        caller \in BookOwners, price \in BuyPrices, amount \in BookAmounts,
        ledger_ok \in BOOLEAN}

PlaceSellOrderCalls ==
    {PlaceSellOrderCall(book, purses, caller, price, amount) :
        caller \in BookOwners, price \in SellPrices, amount \in BookAmounts}

BookCancelCalls ==
    {BookCancelCall(book, purses, caller, order_id, ledger_ok) :
        caller \in BookTraders, order_id \in OrderNumbers, ledger_ok \in BOOLEAN}

DepositTokensCalls ==
    {DepositTokensCall(book, purses, caller, amount) :
        caller \in BookOwners, amount \in TokenDeposits}

WithdrawTokensCalls ==
    {WithdrawTokensCall(book, purses, caller, amount) :
        caller \in BookOwners, amount \in TokenDeposits}

BookStep(c) ==
    /\ contract = "book"
    /\ calls < MaxBookCalls
    /\ book' = c.store
    /\ purses' = c.purses
    /\ last' = Seen(c)
    /\ calls' = Count(c)
    /\ UNCHANGED <<contract, amm, vault, pad, now>>

\* audit.placed: the arguments of the successful placements, in call order;
\* audit.cancelled: the ids of the orders successfully cancelled so far
Placed(c, side) ==
    IF c.err = Ok
    THEN [audit EXCEPT !.placed = Append(@, [id |-> c.ret, owner |-> c.caller,
                                              side |-> side, price |-> c.args.price,
                                              amount |-> c.args.amount])]
    ELSE audit

BookPlaceBuyOrder ==
    \E c \in PlaceBuyOrderCalls : BookStep(c) /\ audit' = Placed(c, SIDE_BUY)

BookPlaceSellOrder ==
    \E c \in PlaceSellOrderCalls : BookStep(c) /\ audit' = Placed(c, SIDE_SELL)

BookCancelOrder ==
    \E c \in BookCancelCalls :
        /\ BookStep(c)
        /\ audit' = IF c.err = Ok
                    THEN [audit EXCEPT !.cancelled = @ \cup {c.args.order_id}]
                    ELSE audit

BookDepositTokens == \E c \in DepositTokensCalls : BookStep(c) /\ UNCHANGED audit

BookWithdrawTokens == \E c \in WithdrawTokensCalls : BookStep(c) /\ UNCHANGED audit

NextBook ==
    \/ BookPlaceBuyOrder
    \/ BookPlaceSellOrder
    \/ BookCancelOrder
    \/ BookDepositTokens
    \/ BookWithdrawTokens

(***************************************************************************)
(* The launchpad contract (launchpad/src/main.rs).  Its store: admin,       *)
(* project_counter, platform_fee, total_fees and the dictionaries projects  *)
(* and vesting, keyed by the project id, both holding comma-separated       *)
(* strings.  The block time is the variable now, in milliseconds.           *)
(***************************************************************************)
STATUS_PENDING == 0
STATUS_LAUNCHED == 1

DEFAULT_CLIFF_MS == BigMulLimb(BigFromNat(365 * 24 * 60 * 60), 1000)
DEFAULT_VESTING_MS == BigMulLimb(BigFromNat(2 * 365 * 24 * 60 * 60), 1000)

PadCallers == {Admin, Alice, Mallory}

\* call(): the store after installation, the fee at 20 CSPR
PadInstalled ==
    [admin           |-> Admin,
     project_counter |-> 0,
     platform_fee    |-> BigMulLimb(CSPR, 20),
     total_fees      |-> BigZero,
     projects        |-> new_dictionary,
     vesting         |-> new_dictionary]

get_project_counter(st) == st.project_counter
set_project_counter(st, value) == [st EXCEPT !.project_counter = value]
get_platform_fee(st) == st.platform_fee
get_total_fees(st) == st.total_fees
set_total_fees(st, value) == [st EXCEPT !.total_fees = value]

\* the string founder,name,symbol,supply,status,launch_time
encode_project(founder, name, symbol, supply, status, launch_time) ==
    to_string(founder) \o <<Comma>> \o name \o <<Comma>> \o symbol \o <<Comma>>
        \o U512_to_string(supply) \o <<Comma>> \o u8_to_string(status) \o <<Comma>>
        \o U512_to_string(launch_time)

\* the string founder,total,claimed,cliff_time,end_time
encode_vesting(founder, total, claimed, cliff_time, end_time) ==
    to_string(founder) \o <<Comma>> \o U512_to_string(total) \o <<Comma>>
        \o U512_to_string(claimed) \o <<Comma>> \o U512_to_string(cliff_time)
        \o <<Comma>> \o U512_to_string(end_time)

\* create_project: the fee is moved before anything is written
create_project(st, p, caller, name, symbol, supply, ledger_ok) ==
    IF BigIsZero(supply) THEN Outcome(st, p, "InvalidAmount", NoValue)
    ELSE LET platform_fee == get_platform_fee(st)
             t == transfer(p, caller, FeePurse, platform_fee, ledger_ok) IN
         IF ~t.ok THEN Outcome(st, p, "TransferFailed", NoValue)
         ELSE IF AddOverflows(get_total_fees(st), platform_fee)
         THEN Outcome(st, t.purses, "panic", NoValue)
         ELSE LET st1 == set_total_fees(st, BigAdd(get_total_fees(st), platform_fee))
                  project_id == get_project_counter(st1) + 1
                  st2 == set_project_counter(st1, project_id)
                  project_data == encode_project(caller, name, symbol, supply,
                                                 STATUS_PENDING, BigZero)
                  st3 == [st2 EXCEPT !.projects =
                              dictionary_put(@, project_id, project_data)] IN
              Outcome(st3, t.purses, Ok, project_id)

\* a status check that lets every status through
not_pending_never(status) == FALSE

\* the status check of launch_token
not_pending(status) == status # STATUS_PENDING

\* launch_token; parts[1] here is parts[0] there.  The block times the model
\* reaches are far below the u64 range, so now + DEFAULT_*_MS does not wrap.
launch_token(st, p, caller, project_id, founder_allocation, time) ==
    IF ~dictionary_has(st.projects, project_id)
    THEN Outcome(st, p, "ProjectNotFound", NoValue)
    ELSE LET parts == split(st.projects[project_id]) IN
         IF Len(parts) < 6 THEN Outcome(st, p, "ProjectNotFound", NoValue)
         ELSE IF ~contains(parts[1], SubSeq(to_string(caller), 13 + 1, HashDigits))
         THEN Outcome(st, p, "NotAuthorized", NoValue)
         ELSE IF not_pending(u8_parse_or_255(parts[5]))
         THEN Outcome(st, p, "AlreadyLaunched", NoValue)
         ELSE LET supply == U512_parse_or_zero(parts[4])
                  name   == parts[2]
                  symbol == parts[3] IN
              IF MulOverflows(supply, founder_allocation)
              THEN Outcome(st, p, "panic", NoValue)
              ELSE LET founder_tokens == BigDiv(BigMul(supply, founder_allocation),
                                                BigFromNat(10000))
                       cliff_time == BigAdd(time, DEFAULT_CLIFF_MS)
                       end_time   == BigAdd(time, DEFAULT_VESTING_MS)
                       vesting_data == encode_vesting(caller, founder_tokens, BigZero,
                                                      cliff_time, end_time)
                       st1 == [st EXCEPT !.vesting =
                                   dictionary_put(@, project_id, vesting_data)]
                       updated_project == encode_project(caller, name, symbol, supply,
                                                         STATUS_LAUNCHED, time)
                       st2 == [st1 EXCEPT !.projects =
                                   dictionary_put(@, project_id, updated_project)] IN
                   Outcome(st2, p, Ok, NoValue)

\* a cliff check that lets every block time through
before_cliff_never(time, cliff_time) == FALSE

\* the cliff check of claim_vested
before_cliff(time, cliff_time) == BigLt(time, cliff_time)

\* claim_vested
claim_vested(st, p, caller, project_id, time) ==
    IF ~dictionary_has(st.vesting, project_id)
    THEN Outcome(st, p, "ProjectNotFound", NoValue)
    ELSE LET parts == split(st.vesting[project_id]) IN
         IF Len(parts) < 5 THEN Outcome(st, p, "ProjectNotFound", NoValue)
         ELSE IF ~contains(parts[1], SubSeq(to_string(caller), 13 + 1, HashDigits))
         THEN Outcome(st, p, "NotAuthorized", NoValue)
         ELSE LET total      == U512_parse_or_zero(parts[2])
                  claimed    == U512_parse_or_zero(parts[3])
                  cliff_time == u64_parse_or_max(parts[4])
                  end_time   == u64_parse_or_max(parts[5]) IN
              IF before_cliff(time, cliff_time)
              THEN Outcome(st, p, "VestingNotReady", NoValue)
              ELSE LET elapsed          == BigSub(time, cliff_time)
                       vesting_duration == BigSub(end_time, cliff_time) IN
                   IF BigLt(time, end_time) /\ MulOverflows(total, elapsed)
                   THEN Outcome(st, p, "panic", NoValue)
                   ELSE LET vested == IF BigGe(time, end_time) THEN total
                                      ELSE BigDiv(BigMul(total, elapsed), vesting_duration) IN
                        IF BigLt(vested, claimed) THEN Outcome(st, p, "panic", NoValue)
                        ELSE LET claimable == BigSub(vested, claimed) IN
                             IF BigIsZero(claimable)
                             THEN Outcome(st, p, "AlreadyClaimed", NoValue)
                             ELSE LET updated_vesting ==
                                          encode_vesting(caller, total,
                                                         BigAdd(claimed, claimable),
                                                         cliff_time, end_time)
                                      st1 == [st EXCEPT !.vesting =
                                                  dictionary_put(@, project_id,
                                                                 updated_vesting)] IN
                                  Outcome(st1, p, Ok, claimable)

\* collect_fees
collect_fees(st, p, caller, recipient, amount, ledger_ok) ==
    IF ~only_admin(st, caller) THEN Outcome(st, p, "NotAuthorized", NoValue)
    ELSE IF BigLt(p[FeePurse], amount)
    THEN Outcome(st, p, "InsufficientPayment", NoValue)
    ELSE LET t == transfer(p, FeePurse, recipient, amount, ledger_ok) IN
         IF ~t.ok THEN Outcome(st, p, "TransferFailed", NoValue)
         ELSE Outcome(st, t.purses, Ok, NoValue)

\* set_platform_fee
set_platform_fee(st, p, caller, fee) ==
    IF ~only_admin(st, caller) THEN Outcome(st, p, "NotAuthorized", NoValue)
    ELSE Outcome([st EXCEPT !.platform_fee = fee], p, Ok, NoValue)

\* The inputs the launchpad's entry points are called with.  A name may hold
\* commas: the second one does.
ProjectNames == {<<20>>, <<20, Comma, 21>>}
ProjectSymbols == {<<22>>}
Supplies == {BigZero, BigFromNat(100)}
Allocations == {BigFromNat(1000), BigFromNat(10000), BigFromNat(20000), U512_MAX}
FeeChoices == {BigZero, CSPR}
CollectAmounts == {BigZero, CSPR}
ProjectIds == 1..2
\* the accounts that create projects; Mallory, whose hash ends as Alice's
\* does, only calls the other entry points
Founders == {Admin, Alice}
FeeRecipients == {Bob}

\* the time between two blocks the model looks at: a year and five eighths
\* of a year, so that a token launched at time 0 is five eighths vested after
\* one step and fully vested after two
BlockStep == BigMulLimb(BigFromNat(365 * 39 * 60 * 60), 1000)

CreateProjectCall(st, p, caller, name, symbol, supply, ledger_ok) ==
    Call("create_project", caller,
         [name |-> name, symbol |-> symbol, supply |-> supply, ledger_ok |-> ledger_ok],
         create_project(st, p, caller, name, symbol, supply, ledger_ok), st, p)

LaunchTokenCall(st, p, caller, project_id, founder_allocation, time) ==
    Call("launch_token", caller,
         [project_id |-> project_id, founder_allocation |-> founder_allocation],
         launch_token(st, p, caller, project_id, founder_allocation, time), st, p)

ClaimVestedCall(st, p, caller, project_id, time) ==
    Call("claim_vested", caller, [project_id |-> project_id],
         claim_vested(st, p, caller, project_id, time), st, p)

CollectFeesCall(st, p, caller, recipient, amount, ledger_ok) ==
    Call("collect_fees", caller,
         [recipient |-> recipient, amount |-> amount, ledger_ok |-> ledger_ok],
         collect_fees(st, p, caller, recipient, amount, ledger_ok), st, p)

SetPlatformFeeCall(st, p, caller, fee) ==
    Call("set_platform_fee", caller, [fee |-> fee],
         set_platform_fee(st, p, caller, fee), st, p)

\* every call of each entry point that is possible in the current state
CreateProjectCalls ==
    {CreateProjectCall(pad, purses, caller, name, symbol, supply, ledger_ok) :
        caller \in Founders, name \in ProjectNames, symbol \in ProjectSymbols,
        supply \in Supplies, ledger_ok \in BOOLEAN}

LaunchTokenCalls ==
    {LaunchTokenCall(pad, purses, caller, project_id, founder_allocation, now) :
        caller \in PadCallers, project_id \in ProjectIds,
        founder_allocation \in Allocations}

ClaimVestedCalls ==
    {ClaimVestedCall(pad, purses, caller, project_id, now) :
        caller \in PadCallers, project_id \in ProjectIds}

CollectFeesCalls ==
    {CollectFeesCall(pad, purses, caller, recipient, amount, ledger_ok) :
        caller \in PadCallers, recipient \in FeeRecipients, amount \in CollectAmounts,
        ledger_ok \in BOOLEAN}

SetPlatformFeeCalls ==
    {SetPlatformFeeCall(pad, purses, caller, fee) :
        caller \in PadCallers, fee \in FeeChoices}

PadStep(c) ==
    /\ contract = "pad"
    /\ calls < MaxPadCalls
    /\ pad' = c.store
    /\ purses' = c.purses
    /\ last' = Seen(c)
    /\ calls' = Count(c)
    /\ UNCHANGED <<contract, amm, vault, book, now>>

PadCreateProject == \E c \in CreateProjectCalls : PadStep(c) /\ UNCHANGED audit

\* audit.launched: the successful launch_token calls so far, each with the
\* vesting record it created
PadLaunchToken ==
    \E c \in LaunchTokenCalls :
        /\ PadStep(c)
        /\ audit' = IF c.err = Ok
                    THEN [audit EXCEPT !.launched = @ \cup
                             {[id |-> c.args.project_id,
                               vesting |-> c.store.vesting[c.args.project_id]]}]
                    ELSE audit

PadClaimVested == \E c \in ClaimVestedCalls : PadStep(c) /\ UNCHANGED audit

PadCollectFees == \E c \in CollectFeesCalls : PadStep(c) /\ UNCHANGED audit

PadSetPlatformFee == \E c \in SetPlatformFeeCalls : PadStep(c) /\ UNCHANGED audit

\* a later block: runtime::get_blocktime() grows between calls
PadBlockTime ==
    /\ contract = "pad"
    /\ BigLt(now, BigMulLimb(BlockStep, MaxBlocks))
    /\ now' = BigAdd(now, BlockStep)
    /\ UNCHANGED <<contract, amm, vault, book, pad, purses, last, audit, calls>>

NextPad ==
    \/ PadCreateProject
    \/ PadLaunchToken
    \/ PadClaimVested
    \/ PadCollectFees
    \/ PadSetPlatformFee
    \/ PadBlockTime

(***************************************************************************)
(* Specifications.                                                         *)
(***************************************************************************)
NoCall == [op |-> "call", caller |-> Admin, ret |-> NoValue]

Installed ==
    /\ amm = AmmInstalled
    /\ vault = VaultInstalled
    /\ book = BookInstalled
    /\ pad = PadInstalled
    /\ purses = [x \in Purses |-> IF x \notin Accounts THEN BigZero
                                  ELSE IF contract = "pad" THEN PadFunds ELSE Funds]
    /\ now = BigZero
    /\ last = NoCall
    /\ audit = [reserve |-> BigZero, supply |-> BigZero,
                locks |-> [id \in OrderIds |-> 0],
                locker |-> [id \in OrderIds |-> NoValue], order_book |-> NoValue,
                placed |-> <<>>, cancelled |-> {}, launched |-> {}, inits |-> <<>>,
                withdrawn |-> FALSE,
                locked_in |-> [id \in OrderIds |-> BigZero],
                paid_out |-> [id \in OrderIds |-> BigZero]]
    /\ calls = 0

InitAmm == contract = "amm" /\ Installed

SpecAmm == InitAmm /\ [][NextAmm]_vars

InitVault == contract = "vault" /\ Installed

SpecVault == InitVault /\ [][NextVault]_vars

InitBook == contract = "book" /\ Installed

SpecBook == InitBook /\ [][NextBook]_vars

InitPad == contract = "pad" /\ Installed

SpecPad == InitPad /\ [][NextPad]_vars

\* any one of the four contracts, installed
Init == contract \in {"amm", "vault", "book", "pad"} /\ Installed

Next ==
    \/ contract = "amm" /\ NextAmm
    \/ contract = "vault" /\ NextVault
    \/ contract = "book" /\ NextBook
    \/ contract = "pad" /\ NextPad

Spec == Init /\ [][Next]_vars

(***************************************************************************)
(* Claims about the AMM.                                                   *)
(***************************************************************************)
\* what a call would take out of, and put into, its caller's main purse
PaidBy(c, before)     == BigSub(before[c.caller], c.purses[c.caller])
ReceivedBy(c, before) == BigSub(c.purses[c.caller], before[c.caller])

\* the call left the store and the ledger as they were, both in what the
\* handler wrote before it stopped and in what the host committed
Untouched(c, st, p) ==
    /\ c.ran.store = st
    /\ c.ran.purses = p
    /\ c.store = st
    /\ c.purses = p

\* C1: after any sequence of calls, reverted ones included, the reserve purse
\* holds the costs of the successful buys (and the deposits) minus the
\* proceeds of the successful sells (and the withdrawals), and total_supply
\* is the tokens credited by the successful buys minus those debited by the
\* successful sells.
C1_AmmConservation ==
    contract = "amm" =>
        /\ purses[AmmReserve] = audit.reserve
        /\ get_total_supply(amm) = audit.supply

\* a sell has succeeded after buys, and tokens and reserve remain
C1_Witness ==
    /\ contract = "amm"
    /\ last.op = "sell"
    /\ ~BigIsZero(audit.supply)
    /\ ~BigIsZero(audit.reserve)

\* C2: in every state of an initialized AMM, a buy of D > 0 tokens followed
\* immediately by the same caller's sell of the same D tokens pays proceeds
\* that are at most the cost: the sell is priced at most at what the buy was
\* priced, and the caller's purse ends no larger than it started.
C2_AmmRoundTrip ==
    contract = "amm" =>
        (\A b \in BuyCalls :
            b.err = Ok =>
                \A min_proceeds \in MinProceedsChoices :
                    \A s \in {SellCall(b.store, b.purses, b.caller, b.args.token_amount,
                                       min_proceeds, TRUE)} :
                        s.err = Ok =>
                            /\ BigLe(s.args.quote, b.args.quote)
                            /\ BigLe(ReceivedBy(s, b.purses), PaidBy(b, purses))
                            /\ BigLe(s.purses[s.caller], purses[s.caller]))

\* on a sloped curve with tokens outstanding, some buy succeeds and the sell
\* that follows it succeeds and pays out
C2_Witness ==
    /\ contract = "amm"
    /\ ~BigIsZero(get_reserve_ratio(amm))
    /\ ~BigIsZero(get_total_supply(amm))
    /\ last.op = "sell"
    /\ \E b \in BuyCalls :
          /\ b.err = Ok
          /\ \E s \in {SellCall(b.store, b.purses, b.caller, b.args.token_amount,
                                BigZero, TRUE)} :
                s.err = Ok /\ ~BigIsZero(ReceivedBy(s, b.purses))

\* a sell that priced the trade: initialized, amount > 0, the caller holds
\* the tokens, the supply covers them (sell, lines 315-331) and the proceeds
\* fit 512 bits
SellPriced(c) ==
    /\ is_initialized(amm)
    /\ ~BigIsZero(c.args.token_amount)
    /\ BigGe(get_user_balance(amm, c.caller), c.args.token_amount)
    /\ BigGe(get_total_supply(amm), c.args.token_amount)
    /\ ~calculate_sell_proceeds_panics(amm, c.args.token_amount)

\* a buy that priced the trade: its cost fits 512 bits
BuyPriced(c) == ~calculate_buy_cost_panics(amm, c.args.token_amount)

\* C3: a successful buy takes at most max_cost out of the caller's purse and
\* a successful sell pays the caller at least min_proceeds; a buy whose cost
\* exceeds max_cost, and a sell whose calculated proceeds are below
\* min_proceeds, fails with SlippageExceeded having written nothing: supply,
\* balances and reserve are as before.
C3_AmmSlippage ==
    contract = "amm" =>
        /\ (\A c \in BuyCalls :
              /\ c.err = Ok => BigLe(PaidBy(c, purses), c.args.max_cost)
              /\ (BuyPriced(c) /\ BigGt(c.args.quote, c.args.max_cost)) =>
                    c.err = "SlippageExceeded" /\ Untouched(c, amm, purses))
        /\ (\A c \in SellCalls :
              /\ c.err = Ok => BigGe(ReceivedBy(c, purses), c.args.min_proceeds)
              /\ (SellPriced(c) /\ BigLt(c.args.quote, c.args.min_proceeds)) =>
                    c.err = "SlippageExceeded" /\ Untouched(c, amm, purses))

\* after a successful sell, one buy and one sell are rejected for slippage and
\* another buy and another sell go through
C3_Witness ==
    /\ contract = "amm"
    /\ last.op = "sell"
    /\ \E c \in BuyCalls : c.err = "SlippageExceeded"
    /\ \E c \in BuyCalls : c.err = Ok
    /\ \E c \in SellCalls : c.err = "SlippageExceeded"
    /\ \E c \in SellCalls : c.err = Ok

(***************************************************************************)
(* Claims about the token vault.                                           *)
(***************************************************************************)
\* C5: a successful lock(id, A) leaves A locked under id and A more in the
\* vault purse; a successful unlock(id, r, B) has B <= locked(id), lowers
\* locked(id) by exactly B and pays exactly B out of the vault purse to r; the
\* owner's cancel_order(id), also after partial unlocks, refunds exactly what
\* is still locked to the owner and leaves locked(id) at 0.
C5_VaultEscrowExact ==
    contract = "vault" =>
        /\ (\A c \in LockCalls :
              c.err = Ok =>
                /\ get_locked_amount(c.store, c.args.order_id) = c.args.amount
                /\ c.purses[VaultPurse] = BigAdd(purses[VaultPurse], c.args.amount)
                /\ c.purses[c.caller] = BigSub(purses[c.caller], c.args.amount))
        /\ (\A c \in UnlockCalls :
              c.err = Ok =>
                /\ BigLe(c.args.amount, get_locked_amount(vault, c.args.order_id))
                /\ get_locked_amount(c.store, c.args.order_id)
                      = BigSub(get_locked_amount(vault, c.args.order_id), c.args.amount)
                /\ c.purses[c.args.recipient]
                      = BigAdd(purses[c.args.recipient], c.args.amount)
                /\ c.purses[VaultPurse] = BigSub(purses[VaultPurse], c.args.amount))
        /\ (\A c \in VaultCancelCalls :
              (/\ audit.locks[c.args.order_id] > 0
               /\ c.caller = audit.locker[c.args.order_id]
               /\ c.args.ledger_ok) =>
                /\ c.err = Ok
                /\ c.purses[c.caller]
                      = BigAdd(purses[c.caller], get_locked_amount(vault, c.args.order_id))
                /\ c.purses[VaultPurse]
                      = BigSub(purses[VaultPurse], get_locked_amount(vault, c.args.order_id))
                /\ get_locked_amount(c.store, c.args.order_id) = BigZero)

\* the only order was locked with 2 CSPR and 1 CSPR of it has been unlocked
\* to another account: 1 CSPR remains for the owner's cancel
C5_Witness ==
    /\ contract = "vault"
    /\ last.op = "unlock_cspr"
    /\ \E id \in OrderIds :
          /\ DOMAIN vault.locked_cspr = {id}
          /\ vault.locked_cspr[id] = CSPR
          /\ purses[VaultPurse] = CSPR
          /\ purses[vault.order_owners[id]] = BigSub(Funds, BigMulLimb(CSPR, 2))

\* the call leaves every recorded owner as it is and raises no locked amount
KeepsOwnersAndLocks(c) ==
    \A id \in DOMAIN vault.order_owners :
        /\ c.store.order_owners[id] = vault.order_owners[id]
        /\ BigLe(get_locked_amount(c.store, id), get_locked_amount(vault, id))

\* C6: lock succeeds at most once per order id.  Once a lock of id has
\* succeeded, every lock of id by any caller reverts (AlreadyLocked, or
\* InvalidAmount for amount 0), also when id is back at zero; no call changes
\* the recorded owner of an id or raises its locked amount.  A lock of
\* amount 0 reverts with InvalidAmount having written nothing.
C6_VaultLockOnce ==
    contract = "vault" =>
        /\ \A id \in OrderIds :
              /\ audit.locks[id] <= 1
              /\ audit.locks[id] = 1 <=> dictionary_has(vault.order_owners, id)
              /\ audit.locks[id] = 1 => vault.order_owners[id] = audit.locker[id]
        /\ (\A c \in LockCalls :
              /\ BigIsZero(c.args.amount) =>
                    c.err = "InvalidAmount" /\ Untouched(c, vault, purses)
              /\ (~BigIsZero(c.args.amount) /\ audit.locks[c.args.order_id] > 0) =>
                    c.err = "AlreadyLocked" /\ Untouched(c, vault, purses))
        /\ \A c \in LockCalls : KeepsOwnersAndLocks(c)
        /\ \A c \in UnlockCalls : KeepsOwnersAndLocks(c)
        /\ \A c \in VaultCancelCalls : KeepsOwnersAndLocks(c)
        /\ \A c \in SetOrderBookCalls : KeepsOwnersAndLocks(c)

\* an id that was locked has been unlocked down to zero
C6_Witness ==
    /\ contract = "vault"
    /\ last.op = "unlock_cspr"
    /\ \E id \in OrderIds :
          /\ audit.locks[id] = 1
          /\ dictionary_has(vault.locked_cspr, id)
          /\ BigIsZero(vault.locked_cspr[id])

\* C7: unlock_cspr succeeds only for the admin or for the account stored by
\* the last successful set_order_book, and set_order_book succeeds only for
\* the admin; from every other caller either one reverts with NotAuthorized
\* having written and moved nothing.
C7_VaultUnlockAuthorization ==
    contract = "vault" =>
        /\ (\A c \in UnlockCalls :
              /\ c.err = Ok => c.caller = vault.admin \/ c.caller = audit.order_book
              /\ (c.caller # vault.admin /\ c.caller # audit.order_book) =>
                    c.err = "NotAuthorized" /\ Untouched(c, vault, purses))
        /\ (\A c \in SetOrderBookCalls :
              /\ c.err = Ok => c.caller = vault.admin
              /\ c.caller # vault.admin =>
                    c.err = "NotAuthorized" /\ Untouched(c, vault, purses))

\* the order book set by the admin has unlocked
C7_Witness ==
    /\ contract = "vault"
    /\ last.op = "unlock_cspr"
    /\ last.caller = Bob
    /\ audit.order_book = Bob
    /\ vault.admin # Bob

\* C8: while the stored order book is the default identity, at installation
\* or after set_order_book(default), unlock_cspr from every caller other
\* than the admin reverts with NotAuthorized, the caller whose identity is the
\* default identity included.
C8_VaultDefaultGuard ==
    contract = "vault" =>
        (\A c \in UnlockCalls :
            (vault.order_book = Default /\ c.caller # vault.admin) =>
                c.err = "NotAuthorized" /\ Untouched(c, vault, purses))

\* the admin has set the order book to the default identity while CSPR is
\* locked, and the default identity asks to unlock some of it
C8_Witness ==
    /\ contract = "vault"
    /\ last.op = "set_order_book"
    /\ audit.order_book = Default
    /\ vault.order_book = Default
    /\ \E c \in UnlockCalls :
          /\ c.caller = Default
          /\ ~BigIsZero(c.args.amount)
          /\ BigLe(c.args.amount, get_locked_amount(vault, c.args.order_id))

\* C9: cancel_order of a locked id from a caller other than the account that
\* locked it reverts with NotOrderOwner having written and moved nothing; from
\* that account it refunds all that is still locked and zeroes it, and when
\* nothing is locked any more it succeeds having written and moved nothing.
C9_VaultCancelOwnerOnly ==
    contract = "vault" =>
        (\A c \in VaultCancelCalls :
            audit.locks[c.args.order_id] > 0 =>
                /\ c.caller # audit.locker[c.args.order_id] =>
                      c.err = "NotOrderOwner" /\ Untouched(c, vault, purses)
                /\ (c.caller = audit.locker[c.args.order_id] /\ c.err = Ok) =>
                      /\ c.purses = [purses EXCEPT
                            ![VaultPurse] = BigSub(@, get_locked_amount(vault,
                                                                        c.args.order_id)),
                            ![c.caller] = BigAdd(@, get_locked_amount(vault,
                                                                      c.args.order_id))]
                      /\ c.store = [vault EXCEPT !.locked_cspr[c.args.order_id] = BigZero]
                /\ (/\ c.caller = audit.locker[c.args.order_id]
                    /\ BigIsZero(get_locked_amount(vault, c.args.order_id))) =>
                      c.err = Ok /\ Untouched(c, vault, purses))

\* the owner has cancelled an order that held CSPR and can cancel it again
C9_Witness ==
    /\ contract = "vault"
    /\ last.op = "cancel_order"
    /\ \E id \in OrderIds :
          /\ audit.locks[id] = 1
          /\ last.caller = audit.locker[id]
          /\ BigIsZero(get_locked_amount(vault, id))
          /\ purses[last.caller] = Funds

(***************************************************************************)
(* Claims about the order book.                                            *)
(***************************************************************************)
\* the owner and the status fields of a stored order
OrderOwner(st, order_id) == split(st.orders[order_id])[1]
OrderStatus(st, order_id) == split(st.orders[order_id])[6]

\* C10: for every stored order and every caller whose identity is not the
\* order's stored owner, cancel_order reverts with NotAuthorized, the order
\* keeps its status, and the call pays the caller neither CSPR nor tokens.
C10_BookCancelOwnerOnly ==
    contract = "book" =>
        \A c \in BookCancelCalls :
            (/\ dictionary_has(book.orders, c.args.order_id)
             /\ OrderOwner(book, c.args.order_id) # to_string(c.caller)) =>
                /\ c.err = "NotAuthorized"
                /\ OrderStatus(c.store, c.args.order_id)
                      = OrderStatus(book, c.args.order_id)
                /\ BigLe(c.purses[c.caller], purses[c.caller])
                /\ BigLe(get_token_balance(c.store, c.caller),
                         get_token_balance(book, c.caller))

(***************************************************************************)
(* Claims about all four contracts.                                        *)
(***************************************************************************)
\* the store of the contract under consideration
CurrentStore ==
    CASE contract = "amm"   -> amm
      [] contract = "vault" -> vault
      [] contract = "book"  -> book
      [] contract = "pad"   -> pad

\* every call of every entry point of that contract possible in this state
CurrentCalls ==
    CASE contract = "amm" ->
            InitializeCalls \cup BuyCalls \cup SellCalls \cup DepositReserveCalls
                \cup AdminWithdrawCalls
      [] contract = "vault" ->
            LockCalls \cup UnlockCalls \cup VaultCancelCalls \cup SetOrderBookCalls
      [] contract = "book" ->
            PlaceBuyOrderCalls \cup PlaceSellOrderCalls \cup BookCancelCalls
                \cup DepositTokensCalls \cup WithdrawTokensCalls
      [] contract = "pad" ->
            CreateProjectCalls \cup LaunchTokenCalls \cup ClaimVestedCalls
                \cup CollectFeesCalls \cup SetPlatformFeeCalls

PassesOwnerCheck(st, order_id, caller) ==
    contains(OrderOwner(st, order_id), SubSeq(to_string(caller), 13 + 1, HashDigits))

\* the cancel_order calls possible in this state on the given order
CancelsOf(order_id) == {c \in BookCancelCalls : c.args.order_id = order_id}

\* C11 as stated: an order that was cancelled stays Cancelled, and every
\* later cancel_order on it, whoever calls, fails with OrderAlreadyFilled and
\* moves neither native value nor tokens.
C11_CancelledFailsAlreadyFilled ==
    contract = "book" =>
        \A id \in audit.cancelled :
            /\ OrderStatus(book, id) = u8_to_string(STATUS_CANCELLED)
            /\ \A c \in CancelsOf(id) :
                  /\ c.err = "OrderAlreadyFilled"
                  /\ c.ran.store = book
                  /\ c.ran.purses = purses

\* C11: an order that was cancelled stays Cancelled, and every later
\* cancel_order on it fails without moving native value or tokens: with
\* OrderAlreadyFilled when the caller passes the owner check, with
\* NotAuthorized when the caller does not.
C11_CancelledIsFinal ==
    contract = "book" =>
        \A id \in audit.cancelled :
            /\ OrderStatus(book, id) = u8_to_string(STATUS_CANCELLED)
            /\ \A c \in CancelsOf(id) :
                  /\ c.err = IF PassesOwnerCheck(book, id, c.caller)
                             THEN "OrderAlreadyFilled" ELSE "NotAuthorized"
                  /\ c.ran.store = book
                  /\ c.ran.purses = purses

C11_Witness ==
    /\ contract = "book"
    /\ \E id \in audit.cancelled :
          /\ \E c \in CancelsOf(id) : c.err = "OrderAlreadyFilled"
          /\ \E c \in CancelsOf(id) : c.err = "NotAuthorized"

\* a successful place_buy_order moves exactly floor(price * amount / SCALE)
\* from the caller to the escrow purse
BuyEscrowsCost ==
    \A c \in PlaceBuyOrderCalls :
        c.err = Ok =>
            /\ PaidBy(c, purses) = total_cost_of(c.args.price, c.args.amount)
            /\ c.purses[BookEscrow]
                  = BigAdd(purses[BookEscrow], total_cost_of(c.args.price, c.args.amount))

\* C12: a successful place_buy_order(price, amount) moves exactly
\* floor(price * amount / SCALE) from the caller into the escrow purse, and a
\* successful cancel_order of that still Open order by its owner pays the owner
\* exactly the same floor(price * amount / SCALE).
C12_BuyEscrowExact ==
    contract = "book" =>
        /\ BuyEscrowsCost
        /\ \A k \in DOMAIN audit.placed :
              (/\ audit.placed[k].side = SIDE_BUY
               /\ OrderStatus(book, audit.placed[k].id) = u8_to_string(STATUS_OPEN)) =>
                  \A c \in CancelsOf(audit.placed[k].id) :
                      (c.caller = audit.placed[k].owner /\ c.err = Ok) =>
                          ReceivedBy(c, purses)
                             = total_cost_of(audit.placed[k].price, audit.placed[k].amount)

\* the escrow part of C12 alone
C12_PlacementExact == contract = "book" => BuyEscrowsCost

(***************************************************************************)
(* Claims about placing orders.                                            *)
(***************************************************************************)
\* the k-th field of a stored order: 1 owner, 2 side, 3 price, 4 amount,
\* 5 filled, 6 status
OrderField(st, order_id, k) == split(st.orders[order_id])[k]

\* the order is stored as an Open order with nothing filled
StoredOpen(st, order_id, owner, side, price, amount) ==
    /\ dictionary_has(st.orders, order_id)
    /\ OrderField(st, order_id, 1) = to_string(owner)
    /\ OrderField(st, order_id, 2) = u8_to_string(side)
    /\ OrderField(st, order_id, 3) = U512_to_string(price)
    /\ OrderField(st, order_id, 4) = U512_to_string(amount)
    /\ OrderField(st, order_id, 5) = U512_to_string(BigZero)
    /\ OrderField(st, order_id, 6) = u8_to_string(STATUS_OPEN)

\* C13: place_sell_order with zero price fails with InvalidPrice, otherwise
\* with zero amount fails with InvalidAmount, otherwise with an amount above
\* the caller's internal token balance fails with InsufficientFunds, each
\* time creating no order and changing no balance; a successful call lowers
\* the caller's internal balance by exactly amount, which the balance
\* covered, and records an Open sell order with filled = 0.
C13_SellOrderCustody ==
    contract = "book" =>
        \A c \in PlaceSellOrderCalls :
            /\ BigIsZero(c.args.price) => c.err = "InvalidPrice"
            /\ (~BigIsZero(c.args.price) /\ BigIsZero(c.args.amount))
                  => c.err = "InvalidAmount"
            /\ (/\ ~BigIsZero(c.args.price) /\ ~BigIsZero(c.args.amount)
                /\ BigGt(c.args.amount, get_token_balance(book, c.caller)))
                  => c.err = "InsufficientFunds"
            /\ c.err # Ok => Untouched(c, book, purses)
            /\ c.err = Ok =>
                  /\ BigGe(get_token_balance(book, c.caller), c.args.amount)
                  /\ BigAdd(get_token_balance(c.store, c.caller), c.args.amount)
                        = get_token_balance(book, c.caller)
                  /\ \A other \in BookTraders \ {c.caller} :
                        get_token_balance(c.store, other) = get_token_balance(book, other)
                  /\ ~dictionary_has(book.orders, c.ret)
                  /\ StoredOpen(c.store, c.ret, c.caller, SIDE_SELL,
                                c.args.price, c.args.amount)
                  /\ c.purses = purses

C13_Witness ==
    /\ contract = "book"
    /\ last.op = "place_sell_order"
    /\ \E c \in PlaceSellOrderCalls : c.err = "InsufficientFunds"
    /\ \E c \in PlaceSellOrderCalls : c.err = Ok

(***************************************************************************)
(* Claims about best_bid and best_ask.                                     *)
(***************************************************************************)
\* the prices of all orders of one side placed so far, cancelled ones included
PlacedPrices(side) ==
    {audit.placed[k].price : k \in {j \in DOMAIN audit.placed : audit.placed[j].side = side}}

\* the call does not lower best_bid and does not raise best_ask
RaisesBidLowersAsk(c) ==
    /\ BigGe(get_best_bid(c.store), get_best_bid(book))
    /\ BigLe(get_best_ask(c.store), get_best_ask(book))

\* C14: cancel_order never changes best_bid or best_ask; no call lowers
\* best_bid or raises best_ask; so best_bid is the highest price of all buy
\* orders placed so far and best_ask the lowest price of all sell orders
\* placed so far, whether or not those orders were cancelled since.
C14_BestPricesStale ==
    contract = "book" =>
        /\ \A c \in BookCancelCalls :
              /\ get_best_bid(c.store) = get_best_bid(book)
              /\ get_best_ask(c.store) = get_best_ask(book)
        /\ \A c \in PlaceBuyOrderCalls : RaisesBidLowersAsk(c)
        /\ \A c \in PlaceSellOrderCalls : RaisesBidLowersAsk(c)
        /\ \A c \in DepositTokensCalls : RaisesBidLowersAsk(c)
        /\ \A c \in WithdrawTokensCalls : RaisesBidLowersAsk(c)
        /\ \A price \in PlacedPrices(SIDE_BUY) : BigGe(get_best_bid(book), price)
        /\ get_best_bid(book) \in PlacedPrices(SIDE_BUY) \cup {BigZero}
        /\ \A price \in PlacedPrices(SIDE_SELL) : BigLe(get_best_ask(book), price)
        /\ get_best_ask(book) \in PlacedPrices(SIDE_SELL) \cup {U512_MAX}

\* the only sell order placed was cancelled and best_ask still shows its price
C14_Witness ==
    /\ contract = "book"
    /\ last.op = "cancel_order"
    /\ \E k \in DOMAIN audit.placed :
          /\ audit.placed[k].side = SIDE_SELL
          /\ audit.placed[k].id \in audit.cancelled
          /\ get_best_ask(book) = audit.placed[k].price
          /\ \A j \in DOMAIN audit.placed : audit.placed[j].id \in audit.cancelled

\* the number a stored decimal field stands for
DecimalValue(d) == FromDigits(d, 10, 1, BigZero)

\* the ids of the stored orders of one side that are Open
OpenOrders(st, side) ==
    {id \in DOMAIN st.orders :
        /\ OrderField(st, id, 2) = u8_to_string(side)
        /\ OrderField(st, id, 6) = u8_to_string(STATUS_OPEN)}

\* C15: in every reachable state best_bid is at least the price of every
\* Open buy order and best_ask is at most the price of every Open sell order;
\* at installation best_bid is 0 and best_ask is the maximum value.
C15_BestPricesBound ==
    contract = "book" =>
        /\ \A id \in OpenOrders(book, SIDE_BUY) :
              BigGe(get_best_bid(book), DecimalValue(OrderField(book, id, 3)))
        /\ \A id \in OpenOrders(book, SIDE_SELL) :
              BigLe(get_best_ask(book), DecimalValue(OrderField(book, id, 3)))
        /\ calls = 0 =>
              /\ get_best_bid(book) = BigZero
              /\ get_best_ask(book) = U512_MAX

\* two Open buy orders at different prices: best_bid is the price of the
\* dearer one and lies strictly above the price of the other
C15_Witness ==
    /\ contract = "book"
    /\ \E id \in OpenOrders(book, SIDE_BUY) :
          get_best_bid(book) = DecimalValue(OrderField(book, id, 3))
    /\ \E id \in OpenOrders(book, SIDE_BUY) :
          BigGt(get_best_bid(book), DecimalValue(OrderField(book, id, 3)))

(***************************************************************************)
(* Claims about order ids.                                                 *)
(***************************************************************************)
\* a placement call returns the next id, which names no order yet, when it
\* succeeds and leaves the counter alone when it fails
TakesNextId(c) ==
    IF c.err = Ok
    THEN /\ c.ret = get_order_counter(book) + 1
         /\ get_order_counter(c.store) = c.ret
         /\ ~dictionary_has(book.orders, c.ret)
         /\ dictionary_has(c.store.orders, c.ret)
    ELSE /\ get_order_counter(c.ran.store) = get_order_counter(book)
         /\ get_order_counter(c.store) = get_order_counter(book)

\* C16: the successful place_buy_order and place_sell_order calls return the
\* ids 1, 2, 3, ... in call order from one counter shared by both sides; an
\* id is never used twice, a failed placement takes no id, and cancel_order
\* never changes the counter.
C16_OrderIds ==
    contract = "book" =>
        /\ \A k \in DOMAIN audit.placed : audit.placed[k].id = k
        /\ get_order_counter(book) = Len(audit.placed)
        /\ DOMAIN book.orders = 1..Len(audit.placed)
        /\ \A c \in PlaceBuyOrderCalls : TakesNextId(c)
        /\ \A c \in PlaceSellOrderCalls : TakesNextId(c)
        /\ \A c \in BookCancelCalls :
              /\ get_order_counter(c.ran.store) = get_order_counter(book)
              /\ get_order_counter(c.store) = get_order_counter(book)

\* a buy and a sell order were placed, and both a placement that fails and
\* a cancel_order that succeeds are possible
C16_Witness ==
    /\ contract = "book"
    /\ \E j, k \in DOMAIN audit.placed : audit.placed[j].side # audit.placed[k].side
    /\ \E c \in PlaceBuyOrderCalls \cup PlaceSellOrderCalls : c.err # Ok
    /\ \E c \in BookCancelCalls : c.err = Ok

(***************************************************************************)
(* Claims about vesting.                                                   *)
(***************************************************************************)
\* the k-th field of a stored vesting record: 1 founder, 2 total, 3 claimed,
\* 4 cliff_time, 5 end_time
VestingField(st, project_id, k) == split(st.vesting[project_id])[k]

\* the numbers the record shows
VestingTotal(st, project_id)   == DecimalValue(VestingField(st, project_id, 2))
VestingClaimed(st, project_id) == DecimalValue(VestingField(st, project_id, 3))
VestingCliff(st, project_id)   == DecimalValue(VestingField(st, project_id, 4))
VestingEnd(st, project_id)     == DecimalValue(VestingField(st, project_id, 5))

\* every record shows claimed <= total, and no claim_vested lowers claimed
ClaimedBounded ==
    /\ \A id \in DOMAIN pad.vesting : BigLe(VestingClaimed(pad, id), VestingTotal(pad, id))
    /\ \A c \in ClaimVestedCalls :
          dictionary_has(pad.vesting, c.args.project_id) =>
              BigGe(VestingClaimed(c.store, c.args.project_id),
                    VestingClaimed(pad, c.args.project_id))

\* C17: every vesting record has claimed <= total in every reachable state,
\* no claim_vested lowers claimed, and the subtraction vested - claimed in
\* claim_vested never underflows, so that no claim_vested call traps.
C17_VestingBound ==
    contract = "pad" =>
        /\ ClaimedBounded
        /\ \A c \in ClaimVestedCalls : c.err # "panic"

\* the bound and the monotonicity of C17 without the subtraction
C17_ClaimedBounded == contract = "pad" => ClaimedBounded

\* the claim_vested calls possible in this state that the founder recorded for
\* the project can make
FounderClaims(project_id) ==
    {c \in ClaimVestedCalls :
        /\ c.args.project_id = project_id
        /\ to_string(c.caller) = VestingField(pad, project_id, 1)}

\* C18: while the block time is strictly before a record's cliff_time, every
\* claim_vested by its founder fails with VestingNotReady and leaves the
\* record as it is, and the record's claimed is 0.
C18_VestingCliff ==
    contract = "pad" =>
        \A id \in DOMAIN pad.vesting :
            BigLt(now, VestingCliff(pad, id)) =>
                /\ VestingClaimed(pad, id) = BigZero
                /\ \A c \in FounderClaims(id) :
                      /\ c.err = "VestingNotReady"
                      /\ Untouched(c, pad, purses)

\* a token launched after the block time advanced, still before its cliff
C18_Witness ==
    /\ contract = "pad"
    /\ \E id \in DOMAIN pad.vesting :
          /\ BigLt(now, VestingCliff(pad, id))
          /\ ~BigIsZero(now)
          /\ \E c \in FounderClaims(id) : c.err = "VestingNotReady"

\* the amount the vesting schedule releases up to block time t
vested_at(total, cliff_time, end_time, t) ==
    IF BigGe(t, end_time) THEN total
    ELSE BigDiv(BigMul(total, BigSub(t, cliff_time)), BigSub(end_time, cliff_time))

\* the successful call returned what the schedule of the record releases at
\* this block time beyond what was claimed, and the record now shows all of it
\* as claimed
ClaimsBySchedule(c, id) ==
    /\ VestingClaimed(c.store, id)
          = vested_at(VestingTotal(pad, id), VestingCliff(pad, id), VestingEnd(pad, id), now)
    /\ BigAdd(c.ret, VestingClaimed(pad, id)) = VestingClaimed(c.store, id)
    /\ VestingTotal(c.store, id) = VestingTotal(pad, id)

\* C19: after any successful claim_vested at block time t the record's claimed
\* equals vested(t), with vested(t) = total from end_time on and
\* floor(total * (t - cliff_time) / (end_time - cliff_time)) before, whatever
\* claims were made earlier; a claim at t >= end_time returns total - claimed
\* and leaves claimed = total.
C19_VestingPathIndependent ==
    contract = "pad" =>
        \A c \in ClaimVestedCalls :
            c.err = Ok => ClaimsBySchedule(c, c.args.project_id)

\* the claim_vested of the same caller on the same project at the same block
\* time, made right after the call c
ClaimAgain(c) ==
    ClaimVestedCall(c.store, c.purses, c.caller, c.args.project_id, now)

\* C20: after a successful claim_vested, a second claim_vested on the same
\* project at the same block time fails with AlreadyClaimed and leaves the
\* vesting record unchanged.
C20_VestingDoubleClaim ==
    contract = "pad" =>
        \A c \in ClaimVestedCalls :
            c.err = Ok =>
                /\ ClaimAgain(c).err = "AlreadyClaimed"
                /\ ClaimAgain(c).store.vesting = c.store.vesting

(***************************************************************************)
(* Claims about launching a project.                                       *)
(***************************************************************************)
\* the k-th field of a stored project: 1 founder, 2 name, 3 symbol,
\* 4 supply, 5 status, 6 created_at
ProjectField(st, project_id, k) == split(st.projects[project_id])[k]

\* the status launch_token reads from the stored project
ProjectStatus(st, project_id) == u8_parse_or_255(ProjectField(st, project_id, 5))

\* the launch_token calls possible in this state on the given project
LaunchesOf(project_id) == {c \in LaunchTokenCalls : c.args.project_id = project_id}

\* the caller passes the founder check of launch_token
PassesFounderCheck(st, project_id, caller) ==
    contains(ProjectField(st, project_id, 1),
             SubSeq(to_string(caller), 13 + 1, HashDigits))

\* a launch_token that succeeds found the status Pending and no vesting
\* record, and leaves the status Launched and a vesting record with nothing
\* claimed
LaunchesPending ==
    \A c \in LaunchTokenCalls :
        c.err = Ok =>
            /\ ProjectStatus(pad, c.args.project_id) = STATUS_PENDING
            /\ ProjectStatus(c.store, c.args.project_id) = STATUS_LAUNCHED
            /\ ~dictionary_has(pad.vesting, c.args.project_id)
            /\ dictionary_has(c.store.vesting, c.args.project_id)
            /\ VestingClaimed(c.store, c.args.project_id) = BigZero

\* a launched project stays Launched, and its vesting record keeps the
\* cliff_time and end_time the launch gave it
LaunchedStays ==
    \A l \in audit.launched :
        /\ ProjectStatus(pad, l.id) = STATUS_LAUNCHED
        /\ dictionary_has(pad.vesting, l.id)
        /\ VestingField(pad, l.id, 4) = split(l.vesting)[4]
        /\ VestingField(pad, l.id, 5) = split(l.vesting)[5]
        /\ \A other \in audit.launched : other.id = l.id => other = l

\* C21 as stated: launch_token succeeds only on a Pending project and sets it
\* to Launched; every later launch_token on that project, whoever calls,
\* fails with AlreadyLaunched and leaves the vesting record as it is.
C21_RelaunchFailsAlreadyLaunched ==
    contract = "pad" =>
        /\ LaunchesPending
        /\ LaunchedStays
        /\ \A l \in audit.launched : \A c \in LaunchesOf(l.id) :
              /\ c.err = "AlreadyLaunched"
              /\ Untouched(c, pad, purses)

\* C21: launch_token succeeds only on a Pending project and sets it to
\* Launched; every later launch_token on that project fails and leaves the
\* project and the vesting record as they are: with AlreadyLaunched when the
\* caller passes the founder check, with NotAuthorized when the caller does
\* not.
C21_LaunchOnce ==
    contract = "pad" =>
        /\ LaunchesPending
        /\ LaunchedStays
        /\ \A l \in audit.launched : \A c \in LaunchesOf(l.id) :
              /\ c.err = IF PassesFounderCheck(pad, l.id, c.caller)
                         THEN "AlreadyLaunched" ELSE "NotAuthorized"
              /\ Untouched(c, pad, purses)

\* a launched project of which something was claimed since, with a founder's
\* and a stranger's launch_token both possible
C21_Witness ==
    /\ contract = "pad"
    /\ \E l \in audit.launched :
          /\ ~BigIsZero(VestingClaimed(pad, l.id))
          /\ \E c \in LaunchesOf(l.id) : c.err = "AlreadyLaunched"
          /\ \E c \in LaunchesOf(l.id) : c.err = "NotAuthorized"

\* C22: launch_token on a stored project, and claim_vested on a stored
\* vesting record, called by an account other than the stored founder, fail
\* with NotAuthorized and change neither the project nor the vesting record.
C22_PadFounderOnly ==
    contract = "pad" =>
        /\ \A c \in LaunchTokenCalls :
              (/\ dictionary_has(pad.projects, c.args.project_id)
               /\ ProjectField(pad, c.args.project_id, 1) # to_string(c.caller)) =>
                  /\ c.err = "NotAuthorized"
                  /\ c.store.projects = pad.projects
                  /\ c.store.vesting = pad.vesting
        /\ \A c \in ClaimVestedCalls :
              (/\ dictionary_has(pad.vesting, c.args.project_id)
               /\ VestingField(pad, c.args.project_id, 1) # to_string(c.caller)) =>
                  /\ c.err = "NotAuthorized"
                  /\ c.store.projects = pad.projects
                  /\ c.store.vesting = pad.vesting

\* C23: initialize by an account other than the admin fails with
\* NotAuthorized; by the admin on an uninitialized curve with initial_price = 0
\* it fails with InvalidAmount and the curve stays uninitialized; by the admin
\* on an initialized curve it fails with AlreadyInitialized; no failed
\* initialize changes the store.  Hence wherever initialized is true exactly
\* one initialize has succeeded, initial_price > 0, and initial_price and
\* reserve_ratio are the arguments of that call.
C23_InitializeOnce ==
    contract = "amm" =>
        /\ \A c \in InitializeCalls :
              /\ c.caller # amm.admin => c.err = "NotAuthorized"
              /\ (c.caller = amm.admin /\ amm.initialized) =>
                     c.err = "AlreadyInitialized"
              /\ (c.caller = amm.admin /\ ~amm.initialized
                     /\ BigIsZero(c.args.initial_price)) =>
                     c.err = "InvalidAmount" /\ ~c.store.initialized
              /\ c.err # Ok => c.store = amm /\ c.purses = purses
              /\ c.err = Ok =>
                     /\ c.store.initialized
                     /\ c.store.initial_price = c.args.initial_price
                     /\ c.store.reserve_ratio = c.args.reserve_ratio
        /\ amm.initialized <=> Len(audit.inits) = 1
        /\ Len(audit.inits) <= 1
        /\ amm.initialized =>
              /\ BigGt(amm.initial_price, BigZero)
              /\ amm.initial_price = audit.inits[1].initial_price
              /\ amm.reserve_ratio = audit.inits[1].reserve_ratio

\* the curve is initialized, a later call has succeeded, and the admin's
\* initialize with other parameters is refused
C23_Witness ==
    /\ contract = "amm"
    /\ amm.initialized
    /\ last.op = "buy"
    /\ \E c \in InitializeCalls :
          /\ c.caller = amm.admin
          /\ c.args.reserve_ratio # amm.reserve_ratio
          /\ ~BigIsZero(c.args.initial_price)
          /\ c.err = "AlreadyInitialized"

\* C24 as stated, on an initialized curve: every sell of more tokens than the
\* caller's balance fails with InsufficientTokens, and every sell within the
\* caller's balance whose proceeds exceed the reserve balance fails with
\* InsufficientReserve, both without state change.
C24_SellGuardErrors ==
    (contract = "amm" /\ amm.initialized) =>
        \A c \in SellCalls :
            /\ BigLt(get_user_balance(amm, c.caller), c.args.token_amount) =>
                  /\ c.err = "InsufficientTokens"
                  /\ c.store = amm /\ c.purses = purses
            /\ (/\ BigGe(get_user_balance(amm, c.caller), c.args.token_amount)
                /\ BigLt(purses[AmmReserve], c.args.quote)) =>
                  /\ c.err = "InsufficientReserve"
                  /\ c.store = amm /\ c.purses = purses

\* C24: on an initialized curve a sell of a non-zero amount above the
\* caller's balance fails with InsufficientTokens; one that passes the balance
\* and slippage checks and whose proceeds exceed the reserve balance fails
\* with InsufficientReserve; no failed sell changes the store or a purse; a
\* successful sell takes no more than the caller's balance, the total supply
\* and the reserve hold, so none of the three subtractions underflows.
C24_SellGuards ==
    contract = "amm" =>
        \A c \in SellCalls :
            LET balance == get_user_balance(amm, c.caller)
                amount  == c.args.token_amount IN
            /\ (amm.initialized /\ ~BigIsZero(amount) /\ BigLt(balance, amount)) =>
                  c.err = "InsufficientTokens"
            /\ (/\ amm.initialized /\ ~BigIsZero(amount) /\ BigGe(balance, amount)
                /\ BigGe(c.args.quote, c.args.min_proceeds)
                /\ BigLt(purses[AmmReserve], c.args.quote)) =>
                  c.err = "InsufficientReserve"
            /\ c.err # Ok => c.store = amm /\ c.purses = purses
            /\ c.err = Ok =>
                  /\ BigGe(balance, amount)
                  /\ BigGe(get_total_supply(amm), amount)
                  /\ BigGe(purses[AmmReserve], c.args.quote)
                  /\ BigAdd(get_user_balance(c.store, c.caller), amount) = balance
                  /\ BigAdd(get_total_supply(c.store), amount) = get_total_supply(amm)
                  /\ BigAdd(c.purses[AmmReserve], c.args.quote) = purses[AmmReserve]

\* a holder's sell within their balance is refused because the reserve holds
\* less than the proceeds, and their sell of more than they hold is refused
C24_Witness ==
    /\ contract = "amm"
    /\ \E c \in SellCalls :
          /\ ~BigIsZero(get_user_balance(amm, c.caller))
          /\ BigGe(get_user_balance(amm, c.caller), c.args.token_amount)
          /\ c.err = "InsufficientReserve"
    /\ \E c \in SellCalls :
          /\ ~BigIsZero(get_user_balance(amm, c.caller))
          /\ c.err = "InsufficientTokens"
    /\ last.op = "admin_withdraw"

\* the quadratic term of the cost of D tokens at supply S, with
\* (S + D)^2 - S^2 = D * (2 S + D) and one division
CurveQuadratic(initial_price, reserve_ratio, S, D) ==
    BigDiv(BigMul(BigMul(initial_price, reserve_ratio),
                  BigMul(D, BigAdd(BigMulLimb(S, 2), D))),
           BigMul(BigFromNat(20000), SCALE))

CurveCost(initial_price, reserve_ratio, S, D) ==
    BigAdd(BigMul(initial_price, D), CurveQuadratic(initial_price, reserve_ratio, S, D))

\* C25: on an initialized curve at supply S the cost of D tokens is
\* initial_price * D + floor(initial_price * reserve_ratio * ((S + D)^2 - S^2)
\* / (20000 * SCALE)); every successful buy moves exactly this amount from the
\* buyer to the reserve (quote is calculate_buy_cost in the state of the
\* call); for initial_price = 10^9, reserve_ratio = 1000, S = 0,
\* D = 100 the cost is 100000000500.
C25_BuyCostFormula ==
    contract = "amm" =>
        /\ LET cost == [D \in TokenAmounts |->
                            CurveCost(amm.initial_price, amm.reserve_ratio,
                                      get_total_supply(amm), D)] IN
           \A c \in BuyCalls :
              /\ amm.initialized => c.args.quote = cost[c.args.token_amount]
              /\ c.err = Ok =>
                    /\ c.purses[AmmReserve]
                         = BigAdd(purses[AmmReserve], cost[c.args.token_amount])
                    /\ purses[c.caller]
                         = BigAdd(c.purses[c.caller], cost[c.args.token_amount])
        /\ calculate_buy_cost([AmmInstalled EXCEPT !.initial_price = CSPR,
                                                   !.reserve_ratio = BigFromNat(1000),
                                                   !.initialized = TRUE],
                              BigFromNat(100))
             = DecimalValue(<<1, 0, 0, 0, 0, 0, 0, 0, 0, 5, 0, 0>>)

\* a buy was paid on a sloped curve, and a further buy at the supply reached
\* has a quadratic term that the division rounds down
C25_Witness ==
    /\ contract = "amm"
    /\ last.op = "buy"
    /\ ~BigIsZero(get_total_supply(amm))
    /\ \E c \in BuyCalls :
          /\ c.err = Ok
          /\ ~BigIsZero(CurveQuadratic(amm.initial_price, amm.reserve_ratio,
                                       get_total_supply(amm), c.args.token_amount))
          /\ BigMul(CurveQuadratic(amm.initial_price, amm.reserve_ratio,
                                   get_total_supply(amm), c.args.token_amount),
                    BigMul(BigFromNat(20000), SCALE))
               # BigMul(BigMul(amm.initial_price, amm.reserve_ratio),
                        BigMul(c.args.token_amount,
                               BigAdd(BigMulLimb(get_total_supply(amm), 2),
                                      c.args.token_amount)))

\* supplies at which the curve is priced: the first few, the current one and
\* two far along the curve
CurveSupplies ==
    {BigFromNat(n) : n \in 0..MaxAmount} \cup {get_total_supply(amm), SCALE, BigMul(SCALE, SCALE)}

\* curve parameters whose slope the two divisions of the price round down
CurvePrices == {BigFromNat(1), BigFromNat(9999), CSPR}
CurveRatios == {BigFromNat(1), BigFromNat(3333)}

\* C26: on an initialized curve with reserve_ratio > 0 the price at s1 is at
\* most the price at s2 whenever s1 <= s2; the price get_price returns after a
\* successful buy is at least, and after a successful sell at most, the price
\* it returned before.
C26_PriceMonotonic ==
    (contract = "amm" /\ amm.initialized /\ ~BigIsZero(amm.reserve_ratio)) =>
        /\ \A initial_price \in CurvePrices \cup {amm.initial_price},
              reserve_ratio \in CurveRatios \cup {amm.reserve_ratio} :
              LET st == [amm EXCEPT !.initial_price = initial_price,
                                    !.reserve_ratio = reserve_ratio]
                  price == [s \in CurveSupplies |-> calculate_price(st, s)] IN
              \A s1, s2 \in CurveSupplies : BigLe(s1, s2) => BigLe(price[s1], price[s2])
        /\ \A c \in BuyCalls :
              c.err = Ok => BigLe(get_price(amm, purses).ret, get_price(c.store, c.purses).ret)
        /\ \A c \in SellCalls :
              c.err = Ok => BigGe(get_price(amm, purses).ret, get_price(c.store, c.purses).ret)

\* after a sell on a sloped curve a buy would raise the price and a sell
\* would lower it
C26_Witness ==
    /\ contract = "amm" /\ amm.initialized /\ ~BigIsZero(amm.reserve_ratio)
    /\ last.op = "sell"
    /\ \E c \in BuyCalls :
          c.err = Ok /\ BigLt(get_price(amm, purses).ret, get_price(c.store, c.purses).ret)
    /\ \E c \in SellCalls :
          c.err = Ok /\ BigGt(get_price(amm, purses).ret, get_price(c.store, c.purses).ret)

\* C27: a get_price, buy or sell in whose price, cost or proceeds computation
\* a product or a sum exceeds the 512-bit range fails with the MathOverflow
\* error and changes neither the store nor a purse.
C27_OverflowIsMathOverflow ==
    (contract = "amm" /\ amm.initialized) =>
        /\ calculate_price_panics(amm, get_total_supply(amm)) =>
              get_price(amm, purses).err = "MathOverflow"
        /\ \A c \in BuyCalls :
              (/\ ~BigIsZero(c.args.token_amount)
               /\ calculate_buy_cost_panics(amm, c.args.token_amount)) =>
                  c.err = "MathOverflow" /\ c.store = amm /\ c.purses = purses
        /\ \A c \in SellCalls :
              (/\ ~BigIsZero(c.args.token_amount)
               /\ BigGe(get_user_balance(amm, c.caller), c.args.token_amount)
               /\ BigGe(get_total_supply(amm), c.args.token_amount)
               /\ calculate_sell_proceeds_panics(amm, c.args.token_amount)) =>
                  c.err = "MathOverflow" /\ c.store = amm /\ c.purses = purses

\* C28: deposit_reserve and admin_withdraw by an account other than the admin
\* fail with NotAuthorized, so both succeed only for the admin; the admin's
\* admin_withdraw of more than the reserve balance fails with
\* InsufficientReserve; a successful admin_withdraw takes exactly amount from
\* the reserve and adds it to the recipient's purse, leaving every other purse
\* alone; neither operation changes the store, so total_supply and every
\* token balance stay as they were.
C28_ReserveAdministration ==
    contract = "amm" =>
        /\ \A c \in DepositReserveCalls :
              /\ c.caller # amm.admin => c.err = "NotAuthorized"
              /\ c.err = Ok =>
                    /\ c.caller = amm.admin
                    /\ c.purses[AmmReserve] = BigAdd(purses[AmmReserve], c.args.amount)
              /\ c.err # Ok => c.purses = purses
              /\ c.store.total_supply = amm.total_supply
              /\ c.store.balances = amm.balances
        /\ \A c \in AdminWithdrawCalls :
              /\ c.caller # amm.admin => c.err = "NotAuthorized"
              /\ (c.caller = amm.admin /\ BigGt(c.args.amount, purses[AmmReserve])) =>
                    c.err = "InsufficientReserve"
              /\ c.err = Ok =>
                    /\ c.caller = amm.admin
                    /\ purses[AmmReserve] = BigAdd(c.purses[AmmReserve], c.args.amount)
                    /\ c.purses[c.args.recipient]
                         = BigAdd(purses[c.args.recipient], c.args.amount)
                    /\ \A x \in Purses \ {AmmReserve, c.args.recipient} :
                          c.purses[x] = purses[x]
              /\ c.err # Ok => c.purses = purses
              /\ c.store.total_supply = amm.total_supply
              /\ c.store.balances = amm.balances

\* a withdrawal has paid an account other than the admin out of a reserve
\* that trading filled; a further withdrawal by the admin would exceed the
\* reserve, and one by another account is refused
C28_Witness ==
    /\ contract = "amm"
    /\ last.op = "admin_withdraw"
    /\ ~BigIsZero(get_total_supply(amm))
    /\ BigGt(purses[Alice], Funds)
    /\ \E c \in AdminWithdrawCalls : c.caller = amm.admin /\ c.err = "InsufficientReserve"
    /\ \E c \in AdminWithdrawCalls : c.caller # amm.admin /\ c.err = "NotAuthorized"
    /\ \E c \in DepositReserveCalls : c.err = Ok /\ ~BigIsZero(c.args.amount)

(***************************************************************************)
(* Order of the effects of a call.  A refused transfer (ledger_ok = FALSE) *)
(* stops a handler at its transfer, so the store such a call leaves        *)
(* uncommitted is the store at the moment of the transfer.                 *)
(***************************************************************************)
\* every call of calls_of that succeeds has made all its store writes when it
\* reaches its transfer
TransferLast(calls_of) ==
    \A c \in calls_of : \A d \in calls_of :
        (/\ c.err = "TransferFailed" /\ ~c.args.ledger_ok
         /\ d.err = Ok
         /\ d.caller = c.caller
         /\ d.args = [c.args EXCEPT !.ledger_ok = TRUE]) =>
            c.ran.store = d.store

\* C29: in every entry point that moves native value (AMM buy, sell,
\* admin_withdraw; order book place_buy_order, cancel_order; vault lock_cspr,
\* unlock_cspr, cancel_order; launchpad create_project) a successful call has
\* made every store write before its transfer.
C29_TransferLast ==
    /\ contract = "amm" =>
          LET buys == BuyCalls  sells == SellCalls  withdrawals == AdminWithdrawCalls IN
          TransferLast(buys) /\ TransferLast(sells) /\ TransferLast(withdrawals)
    /\ contract = "book" =>
          LET placements == PlaceBuyOrderCalls  cancels == BookCancelCalls IN
          TransferLast(placements) /\ TransferLast(cancels)
    /\ contract = "vault" =>
          LET locks == LockCalls  unlocks == UnlockCalls  cancels == VaultCancelCalls IN
          TransferLast(locks) /\ TransferLast(unlocks) /\ TransferLast(cancels)
    /\ contract = "pad" =>
          LET creations == CreateProjectCalls IN TransferLast(creations)

(***************************************************************************)
(* Claims about fills.                                                     *)
(***************************************************************************)
\* the call leaves filled of every stored order as it was, changes the status
\* of an order only from Open to Cancelled and only as a cancel_order of that
\* order, and stores a new order as Open with nothing filled
KeepsFills(c) ==
    /\ \A id \in DOMAIN book.orders :
          /\ id \in DOMAIN c.store.orders
          /\ OrderField(c.store, id, 5) = OrderField(book, id, 5)
          /\ \/ OrderField(c.store, id, 6) = OrderField(book, id, 6)
             \/ /\ c.op = "cancel_order" /\ c.args.order_id = id
                /\ OrderField(book, id, 6) = u8_to_string(STATUS_OPEN)
                /\ OrderField(c.store, id, 6) = u8_to_string(STATUS_CANCELLED)
    /\ \A id \in DOMAIN c.store.orders \ DOMAIN book.orders :
          /\ c.op \in {"place_buy_order", "place_sell_order"}
          /\ OrderField(c.store, id, 5) = U512_to_string(BigZero)
          /\ OrderField(c.store, id, 6) = u8_to_string(STATUS_OPEN)

C31_SellOrderRoundTrip ==
    contract = "book" =>
        \A c \in PlaceSellOrderCalls :
            c.err = Ok =>
                \A x \in {BookCancelCall(c.store, c.purses, c.caller, c.ret, TRUE)} :
                    /\ x.err = Ok
                    /\ get_token_balance(x.store, c.caller) = get_token_balance(book, c.caller)
                    /\ \A a \in Accounts \ {c.caller} :
                          get_token_balance(x.store, a) = get_token_balance(book, a)
                    /\ x.purses[BookEscrow] = purses[BookEscrow]

\* the token balances of the accounts in S, added up
RECURSIVE SumOfBalances(_, _)
SumOfBalances(st, S) ==
    IF S = {} THEN BigZero
    ELSE LET a == CHOOSE x \in S : TRUE
         IN BigAdd(get_user_balance(st, a), SumOfBalances(st, S \ {a}))

\* C32: in every reachable state of the AMM total_supply is the sum of the
\* token balances of all accounts; so a sell whose amount the seller's
\* balance covers passes the check total_supply >= amount of the proceeds
\* computation; and a buy or a sell changes no token balance but the
\* caller's, whether it succeeds or reverts.
C32_SupplyBacking ==
    contract = "amm" =>
        /\ get_total_supply(amm) = SumOfBalances(amm, Accounts)
        /\ \A c \in SellCalls :
              BigGe(get_user_balance(amm, c.caller), c.args.token_amount) =>
                  /\ BigGe(get_total_supply(amm), c.args.token_amount)
                  /\ c.err # "InsufficientTokens"
        /\ \A c \in BuyCalls \cup SellCalls :
              \A a \in Accounts \ {c.caller} :
                  /\ get_user_balance(c.store, a) = get_user_balance(amm, a)
                  /\ get_user_balance(c.ran.store, a) = get_user_balance(amm, a)

\* two accounts hold tokens after a sell, and a further sell is possible
C32_Witness ==
    /\ contract = "amm"
    /\ last.op = "sell"
    /\ \E a, b \in Accounts :
          /\ a # b
          /\ ~BigIsZero(get_user_balance(amm, a))
          /\ ~BigIsZero(get_user_balance(amm, b))
    /\ \E c \in SellCalls : c.err = Ok

\* C33: as long as no admin_withdraw has succeeded, the reserve purse of an
\* initialized curve holds at least the proceeds of selling the whole
\* total_supply in one sell, and no sell a trader can make fails with
\* InsufficientReserve.
C33_ReserveSolvency ==
    (contract = "amm" /\ is_initialized(amm) /\ ~audit.withdrawn) =>
        /\ ~calculate_sell_proceeds_panics(amm, get_total_supply(amm)) =>
              BigGe(purses[AmmReserve],
                    calculate_sell_proceeds(amm, get_total_supply(amm)))
        /\ \A c \in SellCalls : c.err # "InsufficientReserve"

\* C34: in every state in which no initialize has succeeded yet, every buy
\* and every sell fails with NotInitialized and moves no motes and no tokens,
\* total_supply and every token balance are 0, and the reserve purse holds
\* only what deposit_reserve and admin_withdraw put in and took out.
C34_TradesNeedInitialize ==
    (contract = "amm" /\ audit.inits = <<>>) =>
        /\ ~is_initialized(amm)
        /\ \A c \in BuyCalls \cup SellCalls :
              /\ c.err = "NotInitialized"
              /\ Untouched(c, amm, purses)
        /\ BigIsZero(get_total_supply(amm))
        /\ \A a \in Accounts : BigIsZero(get_user_balance(amm, a))
        /\ BigIsZero(audit.supply)
        /\ purses[AmmReserve] = audit.reserve

\* the curve is not initialized, the reserve has received a deposit, and a
\* buy with an amount and a cost limit that would do on an initialized curve
\* is refused
C34_Witness ==
    /\ contract = "amm"
    /\ audit.inits = <<>>
    /\ last.op = "deposit_reserve"
    /\ ~BigIsZero(purses[AmmReserve])
    /\ \E c \in BuyCalls :
          /\ ~BigIsZero(c.args.token_amount)
          /\ c.args.ledger_ok
          /\ c.err = "NotInitialized"

\* floor(price * amount / SCALE) of the stored orders in S, added up
RECURSIVE EscrowOwed(_, _)
EscrowOwed(st, S) ==
    IF S = {} THEN BigZero
    ELSE LET id == CHOOSE x \in S : TRUE
         IN BigAdd(total_cost_of(DecimalValue(OrderField(st, id, 3)),
                                 DecimalValue(OrderField(st, id, 4))),
                   EscrowOwed(st, S \ {id}))

\* C35: in every reachable state of the order book the escrow purse holds the
\* sum over the Open buy orders of floor(price * amount / SCALE); and placing
\* a sell order, cancelling a sell order, deposit_tokens and withdraw_tokens
\* leave the escrow purse as it is.
C35_EscrowConservation ==
    contract = "book" =>
        /\ purses[BookEscrow] = EscrowOwed(book, OpenOrders(book, SIDE_BUY))
        /\ \A c \in PlaceSellOrderCalls \cup DepositTokensCalls \cup WithdrawTokensCalls :
              c.purses[BookEscrow] = purses[BookEscrow]
        /\ \A c \in BookCancelCalls :
              c.args.order_id \in OpenOrders(book, SIDE_SELL) =>
                  c.purses[BookEscrow] = purses[BookEscrow]

\* the amounts locked under the order ids in S, added up
RECURSIVE LockedTotal(_, _)
LockedTotal(st, S) ==
    IF S = {} THEN BigZero
    ELSE LET id == CHOOSE x \in S : TRUE
         IN BigAdd(get_locked_amount(st, id), LockedTotal(st, S \ {id}))

\* C36: in every reachable state of the vault the vault purse holds the sum
\* of the locked amounts over all order ids; and for every id what the
\* unlocks and cancels have paid out plus what is still locked is the amount
\* that was locked under it, so the payouts never exceed that amount.
C36_VaultConservation ==
    contract = "vault" =>
        /\ purses[VaultPurse] = LockedTotal(vault, OrderIds)
        /\ \A id \in OrderIds :
              /\ BigLe(audit.paid_out[id], audit.locked_in[id])
              /\ BigAdd(audit.paid_out[id], get_locked_amount(vault, id))
                    = audit.locked_in[id]

\* an id locked with 2 CSPR has had 1 CSPR unlocked to another account and
\* has then been cancelled by its owner: all of the 2 CSPR has been paid out
C36_Witness ==
    /\ contract = "vault"
    /\ last.op = "cancel_order"
    /\ \E id \in OrderIds :
          /\ audit.locked_in[id] = BigMulLimb(CSPR, 2)
          /\ audit.paid_out[id] = BigMulLimb(CSPR, 2)
          /\ BigIsZero(get_locked_amount(vault, id))
          /\ purses[audit.locker[id]] = BigSub(Funds, CSPR)
          /\ \E a \in Recipients : purses[a] = BigAdd(Funds, CSPR)

(***************************************************************************)
(* Claims about the stored records.                                        *)
(***************************************************************************)
\* the vesting record launch_token wrote for the project
LaunchedVesting(project_id) ==
    {split(l.vesting) : l \in {x \in audit.launched : x.id = project_id}}

\* C37: a successful cancel_order of the order book leaves the owner field of
\* the order as it was; a successful claim_vested leaves the founder, total,
\* cliff_time and end_time fields of the vesting record as they were, and
\* these four fields of every stored vesting record are the ones launch_token
\* wrote.
C37_StoredIdentities ==
    /\ contract = "book" =>
          \A c \in BookCancelCalls :
              c.err = Ok =>
                  OrderField(c.store, c.args.order_id, 1)
                      = OrderField(book, c.args.order_id, 1)
    /\ contract = "pad" =>
          /\ \A c \in ClaimVestedCalls :
                c.err = Ok =>
                    \A k \in {1, 2, 4, 5} :
                        VestingField(c.store, c.args.project_id, k)
                            = VestingField(pad, c.args.project_id, k)
          /\ \A id \in DOMAIN pad.vesting :
                \A w \in LaunchedVesting(id) :
                    \A k \in {1, 2, 4, 5} : VestingField(pad, id, k) = w[k]

\* C38: in every reachable state of the launchpad the total of every vesting
\* record is at most the supply of its project, and the vesting record a
\* successful launch_token writes has a total of at most the supply the
\* project was stored with, whatever founder_allocation is passed.
C38_FounderAllocationBound ==
    contract = "pad" =>
        /\ \A id \in DOMAIN pad.vesting :
              BigLe(VestingTotal(pad, id), DecimalValue(ProjectField(pad, id, 4)))
        /\ \A c \in LaunchTokenCalls :
              c.err = Ok =>
                  BigLe(VestingTotal(c.store, c.args.project_id),
                        DecimalValue(ProjectField(pad, c.args.project_id, 4)))

====
